---- MODULE Spec2Model ----
(***************************************************************************)
(* Graph synchronisation core of graph-rag-mvp: backend/graph.py           *)
(* (import_contexts, fetch_decision_graph), backend/neo4j_store.py         *)
(* (store_decision_graph, load_contexts_from_db) and the builders of       *)
(* backend/context_graph.py they call.  The Neo4j store is a set of nodes  *)
(* (internal id, one label, properties) and a set of typed edges; every    *)
(* transaction or auto-commit statement of the code is one atomic step.    *)
(***************************************************************************)
EXTENDS Naturals, Sequences, FiniteSets, TLC

VARIABLES
    store,   \* the Neo4j database: [nodes, edges]
    procs,   \* per worker: the call in flight and its position in it
    ncalls,  \* calls started so far
    last,    \* the call that returned most recently
    prev,    \* the call that returned before it
    obs,     \* what a reader (fetch_decision_graph / load_contexts_from_db) last saw
    arg,     \* the input handed to a pure function of context_graph.py
    res      \* what that function returned

vars == <<store, procs, ncalls, last, prev, obs, arg, res>>

pure == <<arg, res>>

(***************************************************************************)
(* Values.  Null is Python's None, a missing dict key and an absent node   *)
(* property (Cypher: SET p = null removes p).                              *)
(***************************************************************************)
Null == "<null>"

Truthy(v) == v # Null /\ v # ""

\* Python's  a or b  on strings / None
Or(a, b) == IF Truthy(a) THEN a ELSE b

\* Cypher coalesce(a, b)
Coalesce(a, b) == IF a # Null THEN a ELSE b

\* str.strip() on the texts of the input universe
Strip(s) ==
    CASE s = "y "  -> "y"
      [] s = " "   -> ""
      [] OTHER     -> s

\* str.lower() / Cypher toLower() on the texts of the input universe
Lower(s) ==
    CASE s = "X"                 -> "x"
      [] s = "Role"              -> "role"
      [] s = "Context"           -> "context"
      [] s = "Entity"            -> "entity"
      [] s = "Condition"         -> "condition"
      [] s = "Issue"             -> "issue"
      [] s = "Outcome"           -> "outcome"
      [] s = "Decision_boundary" -> "decision_boundary"
      [] OTHER                   -> s

\* "role" in s  /  s CONTAINS "role", on the entity types of the input universe
ContainsRole(s) == s \in {"role", "Role"}

\* left fold; each intermediate value is computed before the next element is taken
RECURSIVE FoldSeq(_, _, _)
FoldSeq(Op(_, _), acc, s) ==
    IF s = <<>> THEN acc
    ELSE LET next == Op(acc, Head(s))
         IN IF next = next THEN FoldSeq(Op, next, Tail(s)) ELSE acc

RECURSIVE SetToSeq(_)
SetToSeq(S) ==
    IF S = {} THEN <<>>
    ELSE LET e == CHOOSE e \in S : TRUE IN <<e>> \o SetToSeq(S \ {e})

(***************************************************************************)
(* Titles: a missing title, a bare string, or a bilingual dict.            *)
(***************************************************************************)
TNone == [k |-> "none", s |-> Null, en |-> Null, zh |-> Null]
TStr(s) == [k |-> "str", s |-> s, en |-> Null, zh |-> Null]
TDict(en, zh) == [k |-> "dict", s |-> Null, en |-> en, zh |-> zh]

\* bool(title) is False: None, "" (an empty dict is modelled as TNone)
TitleFalsy(t) == t.k = "none" \/ (t.k = "str" /\ t.s = "")

\* _resolve_text: dict -> en or zh or "", None -> "", else str(value); stripped
ResolveText(v) == IF v = Null THEN "" ELSE Strip(v)

ResolveTitle(t) ==
    CASE t.k = "dict" -> Strip(Or(t.en, Or(t.zh, "")))
      [] t.k = "none" -> ""
      [] OTHER        -> Strip(t.s)

(***************************************************************************)
(* The store.  A node has an internal id (nid), one label (lbl) and        *)
(* properties; an absent property is Null.  Properties the code writes     *)
(* but never reads back or matches on (context_intents, confidence_score)  *)
(* are not carried.                                                        *)
(***************************************************************************)
BlankNode ==
    [nid |-> 0, lbl |-> Null, user_id |-> Null, tenant_id |-> Null,
     context_id |-> Null, document_id |-> Null, name |-> Null,
     boundary_type |-> Null, id |-> Null, label |-> Null, title |-> Null,
     description |-> Null, project_id |-> Null, graph_id |-> Null,
     title_en |-> Null, title_zh |-> Null, document_title |-> Null,
     source_note |-> Null]

EmptyStore == [nodes |-> {}, edges |-> {}]

\* r with the fields of upd overwritten
Override(r, upd) == [k \in DOMAIN r |-> IF k \in DOMAIN upd THEN upd[k] ELSE r[k]]

\* a node pattern (n:lbl {key}) ; lbl = Null is a pattern without a label
Matches(n, lbl, key) ==
    /\ lbl = Null \/ n.lbl = lbl
    /\ \A k \in DOMAIN key : n[k] = key[k]

Match(g, lbl, key) == {n \in g.nodes : Matches(n, lbl, key)}

FreshId(g) ==
    LET used == {n.nid : n \in g.nodes}
    IN CHOOSE i \in 1..(Cardinality(used) + 1) :
         i \notin used /\ \A j \in 1..(i - 1) : j \in used

\* a plausible slip: CREATE where MERGE is meant
CreateNode(g, lbl, key) ==
    [g EXCEPT !.nodes =
        @ \cup {Override(BlankNode, key @@ [nid |-> FreshId(g), lbl |-> lbl])}]

\* MERGE (n:lbl {key}) : create the node unless some node matches
MergeNode(g, lbl, key) ==
    IF Match(g, lbl, key) # {} THEN g
    ELSE [g EXCEPT !.nodes =
            @ \cup {Override(BlankNode, key @@ [nid |-> FreshId(g), lbl |-> lbl])}]

\* SET on every node bound by the pattern
SetProps(g, lbl, key, upd) ==
    [g EXCEPT !.nodes =
        {IF Matches(n, lbl, key) THEN Override(n, upd) ELSE n : n \in @}]

\* MERGE (n:lbl {key}) SET n.p = v, ...
Upsert(g, lbl, key, upd) == SetProps(MergeNode(g, lbl, key), lbl, key, upd)

BlankEdge ==
    [eid |-> 0, src |-> 0, typ |-> Null, dst |-> 0, reason |-> Null, graph_id |-> Null]

\* the internal id of the new relationship for pair p among the new pairs:
\* the unused ids in ascending order, the pairs in the order of their ends
FreshEdgeId(g, new, p) ==
    LET used == {e.eid : e \in g.edges}
        free == (1..(Cardinality(used) + Cardinality(new))) \ used
        rank == Cardinality({q \in new : q[1] < p[1] \/ (q[1] = p[1] /\ q[2] < p[2])})
    IN CHOOSE i \in free : Cardinality({j \in free : j < i}) = rank

\* MERGE (a)-[r:typ]->(b) SET r += upd, for every bound pair (a, b)
MergeEdges(g, A, typ, B, upd) ==
    LET pairs == {<<a.nid, b.nid>> : a \in A, b \in B}
        hit(e) == e.typ = typ /\ <<e.src, e.dst>> \in pairs
        have == {<<e.src, e.dst>> : e \in {e \in g.edges : hit(e)}}
        made == {Override(BlankEdge, [eid |-> FreshEdgeId(g, pairs \ have, p),
                                      src |-> p[1], typ |-> typ, dst |-> p[2]]) :
                    p \in pairs \ have}
    IN [g EXCEPT !.edges =
            {IF hit(e) THEN Override(e, upd) ELSE e : e \in (@ \cup made)}]

Scope(u, t) == [user_id |-> u, tenant_id |-> t]

InScope(n, u, t) == n.user_id = u /\ n.tenant_id = t

(***************************************************************************)
(* graph.py: _clear_user_graph                                            *)
(***************************************************************************)
\* plausible slips in the delete: none at all; Context nodes only; the user's
\* nodes in every tenant
ClearNothing(g, u, t) == g

ClearContextsOnly(g, u, t) ==
    LET gone == {n \in g.nodes : InScope(n, u, t) /\ n.lbl = "Context"}
        ids == {n.nid : n \in gone}
    IN [nodes |-> g.nodes \ gone,
        edges |-> {e \in g.edges : e.src \notin ids /\ e.dst \notin ids}]

ClearByUser(g, u, t) ==
    LET gone == {n \in g.nodes : n.user_id = u}
        ids == {n.nid : n \in gone}
    IN [nodes |-> g.nodes \ gone,
        edges |-> {e \in g.edges : e.src \notin ids /\ e.dst \notin ids}]

ClearUserGraph(g, u, t) ==
    LET gone == {n \in g.nodes : InScope(n, u, t)}
        ids == {n.nid : n \in gone}
    IN [nodes |-> g.nodes \ gone,
        edges |-> {e \in g.edges : e.src \notin ids /\ e.dst \notin ids}]

(***************************************************************************)
(* Input records.  A record is what a caller hands to import_contexts or   *)
(* store_decision_graph: a dict (dict = TRUE) or some other object.        *)
(***************************************************************************)
EmptyCtx ==
    [dict |-> TRUE, context_id |-> Null, document_id |-> Null,
     document_title |-> Null, title |-> TNone, entities |-> <<>>,
     conditions |-> <<>>, observed_issues |-> <<>>, outcomes |-> <<>>,
     recommended_solutions |-> <<>>, decision_boundaries |-> <<>>,
     source_note |-> Null, evolves_to |-> <<>>]

\* one condition, one outcome, nothing else
cA ==
    Override(EmptyCtx,
        [context_id |-> "A", document_id |-> "D1", document_title |-> "Doc one",
         title |-> TDict("TA", Null), conditions |-> <<"x">>, outcomes |-> <<"o">>])

\* every list field populated; shares condition x with cA and cA2
cB ==
    Override(EmptyCtx,
        [context_id |-> "B", document_id |-> "D1", title |-> TStr("TB"),
         entities |-> <<[name |-> "op", type |-> "Role"],
                        [name |-> "plc", type |-> "system"]>>,
         conditions |-> <<"x", "X", "y ">>, observed_issues |-> <<"i">>,
         recommended_solutions |-> <<"s">>,
         decision_boundaries |-> <<[boundary_type |-> "bt", description |-> "dB"]>>,
         source_note |-> "s1", evolves_to |-> <<"A">>])

\* a second record with context_id A: no document, other content
cA2 ==
    Override(EmptyCtx,
        [context_id |-> "A", conditions |-> <<"x", "y">>, outcomes |-> <<"o">>,
         decision_boundaries |-> <<[boundary_type |-> "bt", description |-> "dA"]>>])

\* records import_contexts filters out
cEmptyId == Override(EmptyCtx, [context_id |-> "", conditions |-> <<"x">>])
cNoId == Override(EmptyCtx, [conditions |-> <<"x">>])
cNotDict == Override(EmptyCtx, [dict |-> FALSE, context_id |-> "Z"])

\* a context whose context_id is whitespace: the writers keep it, the builders
\* return the empty graph for it
cBlankId == Override(cB, [context_id |-> " "])

(***************************************************************************)
(* graph.py: _merge_contexts, one UNWIND row per context                   *)
(***************************************************************************)
MergeOneContext(g, ctx, u, t) ==
    LET sc == Scope(u, t)
        doc_id == Coalesce(ctx.document_id, "DOC-UNKNOWN")
        doc_title == Coalesce(ctx.document_title, Coalesce(ctx.document_id, "DOC-UNKNOWN"))
        dkey == [document_id |-> doc_id] @@ sc
        ckey == [context_id |-> ctx.context_id] @@ sc
        g1 == Upsert(g, "Document", dkey, [title |-> doc_title])
        g2 == Upsert(g1, "Context", ckey,
                  [title_en |-> ctx.title_en, title_zh |-> ctx.title_zh,
                   source_note |-> ctx.source_note, document_id |-> doc_id,
                   document_title |-> doc_title])
        g3 == MergeEdges(g2, Match(g2, "Document", dkey), "HAS_CONTEXT",
                         Match(g2, "Context", ckey), <<>>)
        \* MERGE (x:lbl {name}) MERGE (c)-[:typ]->(x)
        Out(h, lbl, typ, name) ==
            LET k == [name |-> name] @@ sc
                h1 == MergeNode(h, lbl, k)
            IN MergeEdges(h1, Match(h1, "Context", ckey), typ, Match(h1, lbl, k), <<>>)
        \* MERGE (x:lbl {name}) MERGE (x)-[:typ]->(c)
        In(h, lbl, typ, name) ==
            LET k == [name |-> name] @@ sc
                h1 == MergeNode(h, lbl, k)
            IN MergeEdges(h1, Match(h1, lbl, k), typ, Match(h1, "Context", ckey), <<>>)
        isRole(e) == ContainsRole(Lower(Coalesce(e.type, "")))
        notRole(e) == ~isRole(e)
        names(es) == [i \in 1..Len(es) |-> es[i].name]
        g4 == FoldSeq(LAMBDA h, x : Out(h, "Role", "AFFECTS_ROLE", x), g3, names(SelectSeq(ctx.entities, isRole)))
        g5 == FoldSeq(LAMBDA h, x : Out(h, "Entity", "HAS_ENTITY", x), g4, names(SelectSeq(ctx.entities, notRole)))
        g6 == FoldSeq(LAMBDA h, x : In(h, "Condition", "SHAPES", x), g5, ctx.conditions)
        g7 == FoldSeq(LAMBDA h, x : In(h, "Issue", "IMPACTS", x), g6, ctx.observed_issues)
        g8 == FoldSeq(LAMBDA h, x : Out(h, "Outcome", "LEADS_TO", x), g7, ctx.outcomes)
        g9 == FoldSeq(LAMBDA h, x : Out(h, "Solution", "MITIGATED_BY", x), g8, ctx.recommended_solutions)
        Boundary(h, b) ==
            LET k == [boundary_type |-> b.boundary_type] @@ sc
                h1 == Upsert(h, "DecisionBoundary", k, [description |-> b.description])
            IN MergeEdges(h1, Match(h1, "Context", ckey), "HAS_BOUNDARY",
                          Match(h1, "DecisionBoundary", k), <<>>)
    IN FoldSeq(Boundary, g9, ctx.decision_boundaries)

MergeContexts(g, contexts, u, t) ==
    LET Row(h, ctx) == MergeOneContext(h, ctx, u, t)
    IN FoldSeq(Row, g, contexts)

(***************************************************************************)
(* graph.py: import_contexts, the part before the session                  *)
(***************************************************************************)
\* _to_dict: anything that is not a dict (or a model) becomes {}
ToDict(r) == IF r.dict THEN r ELSE EmptyCtx

ImportRecord(r) ==
    LET rec == ToDict(r)
        title == IF TitleFalsy(rec.title) THEN TDict(Null, Null) ELSE rec.title
    IN [document_id |-> rec.document_id,
        document_title |-> rec.document_title,
        context_id |-> rec.context_id,
        title_en |-> IF title.k = "dict" THEN Or(title.en, "") ELSE title.s,
        title_zh |-> IF title.k = "dict" THEN Or(title.zh, "") ELSE "",
        entities |-> rec.entities,
        conditions |-> rec.conditions,
        observed_issues |-> rec.observed_issues,
        outcomes |-> rec.outcomes,
        recommended_solutions |-> rec.recommended_solutions,
        decision_boundaries |-> rec.decision_boundaries,
        source_note |-> Coalesce(rec.source_note, "")]

ImportKeeps(r) == Truthy(ToDict(r).context_id)

ImportNormalized(batch) ==
    LET kept == SelectSeq(batch, ImportKeeps)
    IN [i \in 1..Len(kept) |-> ImportRecord(kept[i])]

\* tenant = tenant_id or "public"
ImportTenant(tenant_id) == Or(tenant_id, "public")

(***************************************************************************)
(* context_graph.py: build_similarity.  A score is kept in hundredths,     *)
(* as round(score, 2) leaves it.                                           *)
(***************************************************************************)
Range(s) == {s[i] : i \in 1..Len(s)}

Max(a, b) == IF a >= b THEN a ELSE b

Min(a, b) == IF a <= b THEN a ELSE b

\* set(normalize(context.get("conditions", [])))
ConditionSet(c) == {Lower(x) : x \in {ResolveText(v) : v \in Range(c.conditions)} \ {""}}

\* round(s / m, 2) in hundredths (no s / m with m < 8 lies halfway between two hundredths)
Score100(s, m) == (200 * s + m) \div (2 * m)

\* a plausible slip: the thresholds taken as strict
SimilarityLabelStrict(s, m) ==
    IF 5 * s > 4 * m THEN "Success"
    ELSE IF 5 * s > 3 * m THEN "Failure"
    ELSE "Irrelevant"

\* score >= 0.8 / score >= 0.6 with score = s / m
SimilarityLabel(s, m) ==
    IF 5 * s >= 4 * m THEN "Success"
    ELSE IF 5 * s >= 3 * m THEN "Failure"
    ELSE "Irrelevant"

\* a plausible slip: an entry goes in front of its equals
InsertByScoreFront(sorted, e) ==
    LET n == Cardinality({i \in 1..Len(sorted) : sorted[i].score > e.score})
    IN SubSeq(sorted, 1, n) \o <<e>> \o SubSeq(sorted, n + 1, Len(sorted))

\* list.sort(key=score, reverse=True): stable, so an entry goes behind its equals
InsertByScore(sorted, e) ==
    LET n == Cardinality({i \in 1..Len(sorted) : sorted[i].score >= e.score})
    IN SubSeq(sorted, 1, n) \o <<e>> \o SubSeq(sorted, n + 1, Len(sorted))

SortByScore(s) == FoldSeq(InsertByScore, <<>>, s)

\* a plausible slip: the comparison of context_ids left out
SimCandidateAny(context, other) ==
    /\ ConditionSet(other) # {}
    /\ ConditionSet(other) \cap ConditionSet(context) # {}

\* the three `continue`s of the loop over the corpus
SimCandidate(context, other) ==
    /\ other.context_id # context.context_id
    /\ ConditionSet(other) # {}
    /\ ConditionSet(other) \cap ConditionSet(context) # {}

\* a plausible slip: the score taken over the target's conditions alone
SimEntryOverBase(context, other) ==
    LET base == ConditionSet(context)
        oc == ConditionSet(other)
        shared == Cardinality(base \cap oc)
        m == Cardinality(base)
    IN [context_id |-> other.context_id, score |-> Score100(shared, m),
        label |-> SimilarityLabel(shared, m)]

\* results.append({...})
SimEntry(context, other) ==
    LET base == ConditionSet(context)
        oc == ConditionSet(other)
        shared == Cardinality(base \cap oc)
        m == Max(Cardinality(base), Cardinality(oc))
    IN [context_id |-> other.context_id, score |-> Score100(shared, m),
        label |-> SimilarityLabel(shared, m)]

BuildSimilarity(context, contexts, limit) ==
    LET Candidate(other) == SimCandidate(context, other)
        cands == SelectSeq(contexts, Candidate)
        results == [i \in 1..Len(cands) |-> SimEntry(context, cands[i])]
        ordered == SortByScore(results)
    IN IF ConditionSet(context) = {} THEN <<>>
       ELSE SubSeq(ordered, 1, Min(limit, Len(ordered)))

\* str(score) of a rounded score
ScoreText(h) ==
    CASE h = 100      -> "1.0"
      [] h % 10 = 0   -> "0." \o ToString(h \div 10)
      [] h < 10       -> "0.0" \o ToString(h)
      [] OTHER        -> "0." \o ToString(h)

(***************************************************************************)
(* context_graph.py: build_decision_graph.  A built node carries val, the  *)
(* text behind the type prefix of its id, which store_decision_graph       *)
(* recovers by splitting the id.                                           *)
(***************************************************************************)
\* default of the limit parameter
SimLimit == 2

EmptyGraph == [nodes |-> <<>>, links |-> <<>>]

\* a plausible slip: the test for a known id left out
EnsureNodeAlways(gr, id, type, label, val) ==
    [gr EXCEPT !.nodes = Append(@, [id |-> id, type |-> type, label |-> label, val |-> val])]

\* ensure_node: the first node with an id stays
EnsureNode(gr, id, type, label, val) ==
    IF \E i \in 1..Len(gr.nodes) : gr.nodes[i].id = id
    THEN gr
    ELSE [gr EXCEPT !.nodes =
            Append(@, [id |-> id, type |-> type, label |-> label, val |-> val])]

AddLink(gr, src, dst, label, reason) ==
    [gr EXCEPT !.links =
        Append(@, [source |-> src, target |-> dst, label |-> label, reason |-> reason])]

\* a plausible slip: the id not stripped
ContextIdRaw(context) == Coalesce(context.context_id, "")

\* str(context.get("context_id", "")).strip()
ContextIdOf(context) == Strip(Coalesce(context.context_id, ""))

\* build_context_graph: links carry no reason
BuildContextGraph(context) ==
    LET context_id == ContextIdOf(context)
        me == "context:" \o context_id
        g0 == EnsureNode(EmptyGraph, me, "context",
                         Or(ResolveTitle(context.title), context_id), context_id)
        Link(gr, dst, label) ==
            [gr EXCEPT !.links = Append(@, [source |-> me, target |-> dst, label |-> label])]
        Entity(gr, e) ==
            LET name == Strip(Coalesce(e.name, ""))
                type == IF ContainsRole(Lower(Strip(Coalesce(e.type, "entity"))))
                        THEN "role" ELSE "entity"
            IN IF name = "" THEN gr
               ELSE Link(EnsureNode(gr, type \o ":" \o name, type, name, name),
                         type \o ":" \o name, Coalesce(e.type, type))
        Text(gr, type, v) ==
            LET name == ResolveText(v)
            IN IF name = "" THEN gr
               ELSE Link(EnsureNode(gr, type \o ":" \o name, type, name, name),
                         type \o ":" \o name, type)
        g1 == FoldSeq(Entity, g0, context.entities)
        g2 == FoldSeq(LAMBDA gr, v : Text(gr, "condition", v), g1, context.conditions)
        g3 == FoldSeq(LAMBDA gr, v : Text(gr, "issue", v), g2, context.observed_issues)
        g4 == FoldSeq(LAMBDA gr, v : Text(gr, "outcome", v), g3, context.outcomes)
    IN IF context_id = "" THEN EmptyGraph
       ELSE FoldSeq(LAMBDA gr, v : Text(gr, "solution", v), g4, context.recommended_solutions)

BuildDecisionGraph(context, contexts, limit) ==
    LET context_id == ContextIdOf(context)
        me == "context:" \o context_id
        g0 == EnsureNode(EmptyGraph, me, "context",
                         Or(ResolveTitle(context.title), context_id), context_id)
        Entity(gr, e) ==
            LET name == Strip(Coalesce(e.name, ""))
                role == ContainsRole(Lower(Strip(Coalesce(e.type, "entity"))))
                type == IF role THEN "role" ELSE "entity"
            IN IF name = "" THEN gr
               ELSE AddLink(EnsureNode(gr, type \o ":" \o name, type, name, name),
                            me, type \o ":" \o name,
                            IF role THEN "AFFECTS_ROLE" ELSE "INVOLVES_ENTITY",
                            Strip(Coalesce(e.type, "")))
        Text(gr, type, label, v) ==
            LET name == ResolveText(v)
            IN IF name = "" THEN gr
               ELSE AddLink(EnsureNode(gr, type \o ":" \o name, type, name, name),
                            me, type \o ":" \o name, label, name)
        Boundary(gr, b) ==
            LET boundary_type == Strip(Coalesce(b.boundary_type, "boundary"))
                description == Or(ResolveText(b.description), boundary_type)
                boundary_id == "boundary:" \o context_id \o ":" \o boundary_type
            IN AddLink(EnsureNode(gr, boundary_id, "decision_boundary", description,
                                  boundary_type),
                       me, boundary_id, "HAS_BOUNDARY", description)
        Similar(gr, sim) ==
            IF ~Truthy(sim.context_id) THEN gr
            ELSE AddLink(EnsureNode(gr, "context:" \o sim.context_id, "context",
                                    sim.context_id, sim.context_id),
                         me, "context:" \o sim.context_id, "SIMILAR_TO",
                         ScoreText(sim.score) \o " similarity")
        Evolves(gr, e) ==
            LET target_id == Strip(e)
            IN IF target_id = "" THEN gr
               ELSE AddLink(EnsureNode(gr, "context:" \o target_id, "context",
                                       target_id, target_id),
                            me, "context:" \o target_id, "EVOLVES_TO", "Decision evolution")
        g1 == FoldSeq(Entity, g0, context.entities)
        g2 == FoldSeq(LAMBDA gr, v : Text(gr, "condition", "CONDITION", v), g1, context.conditions)
        g3 == FoldSeq(LAMBDA gr, v : Text(gr, "issue", "ISSUE", v), g2, context.observed_issues)
        g4 == FoldSeq(LAMBDA gr, v : Text(gr, "outcome", "OUTCOME", v), g3, context.outcomes)
        g5 == FoldSeq(Boundary, g4, context.decision_boundaries)
        g6 == IF contexts = <<>> THEN g5
              ELSE FoldSeq(Similar, g5, BuildSimilarity(context, contexts, limit))
    IN IF context_id = "" THEN EmptyGraph
       ELSE FoldSeq(Evolves, g6, context.evolves_to)

(***************************************************************************)
(* neo4j_store.py: store_decision_graph.  Every session.run is an          *)
(* auto-commit statement; the call is the sequence of its statements,      *)
(* which depends on the arguments alone.                                   *)
(***************************************************************************)
\* a plausible slip: the default of import_contexts
StoreTenantPublic(user_id, tenant_id) == Or(tenant_id, "public")

\* tenant = tenant_id or user_id
StoreTenant(user_id, tenant_id) == Or(tenant_id, user_id)

\* str.capitalize() on the node types build_decision_graph emits
Capitalize(type) ==
    CASE type = "context"           -> "Context"
      [] type = "role"              -> "Role"
      [] type = "entity"            -> "Entity"
      [] type = "condition"         -> "Condition"
      [] type = "issue"             -> "Issue"
      [] type = "outcome"           -> "Outcome"
      [] type = "decision_boundary" -> "Decision_boundary"

\* _safe_rel: the link labels build_decision_graph emits are already [A-Z_]+
SafeRel(label) ==
    CASE label \in {"AFFECTS_ROLE", "INVOLVES_ENTITY", "CONDITION", "ISSUE", "OUTCOME",
                    "HAS_BOUNDARY", "SIMILAR_TO", "EVOLVES_TO"} -> label

Stmt(k, a, b, c, d) == [k |-> k, a |-> a, b |-> b, c |-> c, d |-> d]

\* the statements one batch member contributes
ContextStmts(context, contexts) ==
    LET context_id == context.context_id
        t == context.title
        context_label ==
            CASE TitleFalsy(t) -> context_id
              [] t.k = "dict"  -> Or(t.en, Or(t.zh, context_id))
              [] OTHER         -> t.s
        graph == BuildDecisionGraph(context, contexts, SimLimit)
        NodeStmt(n) ==
            Stmt("node", Capitalize(n.type), n.id, n.label,
                 IF Lower(Capitalize(n.type)) = "context" THEN n.val ELSE Null)
        LinkStmt(l) == Stmt("link", l.source, SafeRel(l.label), l.target, l.reason)
    IN <<Stmt("context", context_id, "context:" \o context_id, context_label, Null)>>
       \o [i \in 1..Len(graph.nodes) |-> NodeStmt(graph.nodes[i])]
       \o [i \in 1..Len(graph.links) |-> LinkStmt(graph.links[i])]

StoreKeeps(context) == Truthy(context.context_id)

\* the statements of the loop over contexts (lines 48-119)
StoreBody(contexts) ==
    LET kept == SelectSeq(contexts, StoreKeeps)
        Add(acc, context) == acc \o ContextStmts(context, contexts)
    IN FoldSeq(Add, <<>>, kept)

\* a plausible slip: the scope deleted first, as import_contexts does
StoreStmtsCleared(contexts) ==
    <<Stmt("clear", Null, Null, Null, Null), Stmt("head", Null, Null, Null, Null)>>
    \o StoreBody(contexts)

StoreStmts(contexts) == <<Stmt("head", Null, Null, Null, Null)>> \o StoreBody(contexts)

\* the statements of store_decision_graph; a = [user_id, tenant, project_id,
\* document_id, graph_id].  MERGE User / Project / Document and their edges
HeadStmt(g, a) ==
    LET sc == Scope(a.user_id, a.tenant)
        dkey == [document_id |-> a.document_id] @@ sc
        pkey == [project_id |-> a.project_id] @@ sc
        g1 == MergeNode(g, "User", sc)
        g2 == MergeNode(g1, "Project", pkey)
        g3 == Upsert(g2, "Document", dkey, [graph_id |-> a.graph_id])
        g4 == MergeEdges(g3, Match(g3, "User", sc), "HAS_PROJECT",
                         Match(g3, "Project", pkey), <<>>)
    IN MergeEdges(g4, Match(g4, "Project", pkey), "HAS_DOCUMENT",
                  Match(g4, "Document", dkey), <<>>)

\* MERGE the Context, SET; MATCH the Document (no row, no edge), MERGE (d)-[:HAS_CONTEXT]->(c)
ContextStmt(g, st, a) ==
    LET sc == Scope(a.user_id, a.tenant)
        dkey == [document_id |-> a.document_id] @@ sc
        ckey == [context_id |-> st.a] @@ sc
        g1 == Upsert(g, "Context", ckey,
                  [document_id |-> a.document_id, graph_id |-> a.graph_id,
                   id |-> st.b, label |-> st.c])
    IN MergeEdges(g1, Match(g1, "Document", dkey), "HAS_CONTEXT",
                  Match(g1, "Context", ckey), <<>>)

\* MERGE (n:Type {id, user_id, tenant_id}) SET ...
NodeStmt(g, st, a) ==
    LET key == [id |-> st.b] @@ Scope(a.user_id, a.tenant)
        g1 == MergeNode(g, st.a, key)
    IN [g1 EXCEPT !.nodes =
          {IF Matches(n, st.a, key)
           THEN Override(n, [label |-> st.c, document_id |-> a.document_id,
                             project_id |-> a.project_id, graph_id |-> a.graph_id,
                             context_id |-> Coalesce(n.context_id, st.d)])
           ELSE n : n \in @}]

\* a plausible slip: the two MATCHes by id alone, as the repository's test scripts do
LinkStmtAnyScope(g, st, a) ==
    MergeEdges(g, Match(g, Null, [id |-> st.a]), st.b, Match(g, Null, [id |-> st.c]),
               [reason |-> st.d, graph_id |-> a.graph_id])

\* MATCH (a {id, user_id, tenant_id}) MATCH (b {...}) MERGE (a)-[r:REL]->(b) SET ...
LinkStmt(g, st, a) ==
    LET sc == Scope(a.user_id, a.tenant)
    IN MergeEdges(g, Match(g, Null, [id |-> st.a] @@ sc), st.b,
                  Match(g, Null, [id |-> st.c] @@ sc),
                  [reason |-> st.d, graph_id |-> a.graph_id])

\* one session.run of store_decision_graph
RunStmt(g, st, a) ==
    CASE st.k = "head"    -> HeadStmt(g, a)
      [] st.k = "context" -> ContextStmt(g, st, a)
      [] st.k = "node"    -> NodeStmt(g, st, a)
      [] st.k = "link"    -> LinkStmt(g, st, a)

(***************************************************************************)
(* graph.py: _node_identity, _link_label, fetch_decision_graph.  The       *)
(* result is kept as a set of nodes and a set of links: the order of the   *)
(* rows Neo4j returns is not fixed.                                        *)
(***************************************************************************)
NodeIdentity(n) ==
    LET fallback_id == ToString(n.nid)
        Keyed(prefix, type, value, label) ==
            [id |-> IF value # "" THEN prefix \o ":" \o value ELSE prefix \o ":" \o fallback_id,
             type |-> type, label |-> label]
        byName == Or(n.name, Or(n.label, ""))
    IN CASE n.lbl = "Context" ->
              LET value == Or(n.context_id, "")
              IN Keyed("context", "context", value, Or(value, "Context"))
         [] n.lbl = "Document" ->
              LET value == Or(n.document_id, "")
              IN Keyed("document", "document", value, Or(n.title, Or(value, "Document")))
         [] n.lbl = "Condition" -> Keyed("condition", "condition", byName, Or(byName, "Condition"))
         [] n.lbl = "Issue"     -> Keyed("issue", "issue", byName, Or(byName, "Issue"))
         [] n.lbl = "Outcome"   -> Keyed("outcome", "outcome", byName, Or(byName, "Outcome"))
         [] n.lbl = "Solution"  -> Keyed("solution", "solution", byName, Or(byName, "Solution"))
         [] n.lbl = "Role"      -> Keyed("role", "role", byName, Or(byName, "Role"))
         [] n.lbl = "DecisionBoundary" ->
              [id |-> "boundary:" \o fallback_id, type |-> "decision_boundary",
               label |-> Or(n.description, Or(n.boundary_type, "Decision Boundary"))]
         [] n.lbl = "Decision_boundary" ->
              [id |-> Or(n.id, "boundary:" \o fallback_id), type |-> "decision_boundary",
               label |-> Or(n.label, Or(n.id, "Decision Boundary"))]
         [] OTHER ->
              [id |-> "node:" \o fallback_id, type |-> "entity",
               label |-> Coalesce(n.name, "Entity")]

\* rel_type.replace("_", " ").title() on the relationship types the two writers create
TitleCase(rel_type) ==
    CASE rel_type = "HAS_CONTEXT"     -> "Has Context"
      [] rel_type = "AFFECTS_ROLE"    -> "Affects Role"
      [] rel_type = "HAS_ENTITY"      -> "Has Entity"
      [] rel_type = "SHAPES"          -> "Shapes"
      [] rel_type = "IMPACTS"         -> "Impacts"
      [] rel_type = "LEADS_TO"        -> "Leads To"
      [] rel_type = "MITIGATED_BY"    -> "Mitigated By"
      [] rel_type = "HAS_BOUNDARY"    -> "Has Boundary"
      [] rel_type = "HAS_PROJECT"     -> "Has Project"
      [] rel_type = "HAS_DOCUMENT"    -> "Has Document"
      [] rel_type = "INVOLVES_ENTITY" -> "Involves Entity"
      [] rel_type = "CONDITION"       -> "Condition"
      [] rel_type = "ISSUE"           -> "Issue"
      [] rel_type = "OUTCOME"         -> "Outcome"
      [] rel_type = "SIMILAR_TO"      -> "Similar To"
      [] rel_type = "EVOLVES_TO"      -> "Evolves To"

\* a plausible slip: the generic label for every relationship
LinkLabelPlain(rel_type, source, target) == TitleCase(rel_type)

LinkLabel(rel_type, source, target) ==
    CASE rel_type = "SHAPES" /\ source.type = "condition" -> "Condition: " \o source.label
      [] rel_type = "IMPACTS" /\ source.type = "issue" -> "Issue: " \o source.label
      [] rel_type = "LEADS_TO" /\ target.type = "outcome" -> "Leads to: " \o target.label
      [] rel_type = "MITIGATED_BY" /\ target.type = "solution" -> "Mitigated by: " \o target.label
      [] rel_type = "HAS_CONTEXT" /\ target.type = "context" -> "Document context"
      [] rel_type = "HAS_ENTITY" /\ target.type = "entity" -> "Involves entity"
      [] rel_type = "AFFECTS_ROLE" /\ target.type = "role" -> "Affects role"
      [] rel_type = "HAS_BOUNDARY" /\ target.type = "decision_boundary" -> "Decision boundary"
      [] OTHER -> TitleCase(rel_type)

NodeOf(g, nid) == CHOOSE n \in g.nodes : n.nid = nid

\* context_id = Null: the parameter is omitted
FetchDecisionGraph(g, user_id, tenant_id, context_id) ==
    LET tenant == Or(tenant_id, "public")
        IsIt(n) == n.lbl = "Context" /\ n.context_id = context_id
        context_nodes ==
            {c \in g.nodes : /\ c.lbl = "Context" /\ InScope(c, user_id, tenant)
                             /\ (context_id = Null \/ c.context_id = context_id)}
        records ==
            {e \in g.edges :
                LET n == NodeOf(g, e.src)
                    m == NodeOf(g, e.dst)
                IN /\ InScope(n, user_id, tenant) /\ InScope(m, user_id, tenant)
                   /\ (context_id = Null \/ IsIt(n) \/ IsIt(m))}
    IN [nodes |-> {NodeIdentity(c) : c \in context_nodes}
                  \cup {NodeIdentity(NodeOf(g, e.src)) : e \in records}
                  \cup {NodeIdentity(NodeOf(g, e.dst)) : e \in records},
        links |-> {LET source == NodeIdentity(NodeOf(g, e.src))
                       target == NodeIdentity(NodeOf(g, e.dst))
                   IN [source |-> source.id, target |-> target.id,
                       label |-> LinkLabel(e.typ, source, target)] : e \in records}]

(***************************************************************************)
(* neo4j_store.py: load_contexts_from_db (limit omitted).  One record per  *)
(* context_id; the list fields are kept as sets.                           *)
(***************************************************************************)
\* a plausible slip: the rows of the third pass not told apart by context
LoadContextsUnattributed(g, user_id, tenant_id) ==
    LET tenant == Or(tenant_id, user_id)
        cs == {c \in g.nodes : c.lbl = "Context" /\ InScope(c, user_id, tenant)}
        Targets(types) ==
            {NodeOf(g, e.dst) : e \in {e \in g.edges :
                e.typ \in types /\ \E c \in cs : c.nid = e.src}}
    IN {[context_id |-> cid,
         document_id |-> {c.document_id : c \in {c \in cs : c.context_id = cid}},
         title |-> [en |-> cid, zh |-> cid],
         conditions |-> {n.label : n \in Targets({"condition", "CONDITION"})},
         observed_issues |-> {n.label : n \in Targets({"issue", "ISSUE"})},
         outcomes |-> {n.label : n \in Targets({"outcome", "OUTCOME"})},
         decision_boundaries |->
            {[boundary_type |-> b.id, description |-> b.label] :
                b \in {n \in Targets({"HAS_BOUNDARY"}) : n.lbl = "Decision_boundary"}}] :
        cid \in {c.context_id : c \in cs}}

LoadContextsFromDb(g, user_id, tenant_id) ==
    LET tenant == Or(tenant_id, user_id)
        cs == {c \in g.nodes : c.lbl = "Context" /\ InScope(c, user_id, tenant)}
        Targets(cid, types) ==
            {NodeOf(g, e.dst) : e \in {e \in g.edges :
                /\ e.typ \in types
                /\ \E c \in cs : c.nid = e.src /\ c.context_id = cid}}
    IN {[context_id |-> cid,
         document_id |-> {c.document_id : c \in {c \in cs : c.context_id = cid}},
         title |-> [en |-> cid, zh |-> cid],
         conditions |-> {n.label : n \in Targets(cid, {"condition", "CONDITION"})},
         observed_issues |-> {n.label : n \in Targets(cid, {"issue", "ISSUE"})},
         outcomes |-> {n.label : n \in Targets(cid, {"outcome", "OUTCOME"})},
         decision_boundaries |->
            {[boundary_type |-> b.id, description |-> b.label] :
                b \in {n \in Targets(cid, {"HAS_BOUNDARY"}) : n.lbl = "Decision_boundary"}}] :
        cid \in {c.context_id : c \in cs}}

(***************************************************************************)
(* The callers.  A call is the sequence of its transactions                *)
(* (import_contexts: _clear_user_graph, then _merge_contexts when a record *)
(* survived the filter) or auto-commit statements (store_decision_graph).  *)
(***************************************************************************)
MaxCalls == 2

Procs == {1, 2}
Users == {"u1", "u2"}
Tenants == {"t1", "public"} \cup Users
AllScopes == {Scope(u, t) : u \in Users, t \in Tenants}

\* <<user_id, tenant_id>> as passed; Null: tenant_id omitted
Callers == {<<"u1", Null>>, <<"u1", "t1">>, <<"u2", "t1">>}

ImportBatches ==
    {<<>>, <<cA>>, <<cB>>, <<cA2, cB>>, <<cA, cA2>>, <<cNoId, cNotDict>>, <<cEmptyId, cA>>}

StoreBatches == {<<cA>>, <<cB, cA2>>, <<cEmptyId, cB>>, <<cA, cB>>, <<cBlankId>>}

ProjectIds == {"p1"}
DocumentIds == {"D1"}
GraphIds == {"g1"}
ContextIdArgs == {Null, "A"}

ScopeSub(g, u, t) ==
    LET ns == {n \in g.nodes : InScope(n, u, t)}
        ids == {n.nid : n \in ns}
    IN [nodes |-> ns, edges |-> {e \in g.edges : e.src \in ids \/ e.dst \in ids}]

NoArgs == [project_id |-> Null, document_id |-> Null, graph_id |-> Null]

\* solo: no other call has been in flight since this one began
Idle ==
    [pc |-> "idle", op |-> Null, user_id |-> Null, tenant_id |-> Null, tenant |-> Null,
     batch |-> <<>>,
     sargs |-> NoArgs, todo |-> <<>>, pre |-> EmptyStore, solo |-> TRUE]

NoCall ==
    [op |-> Null, user_id |-> Null, tenant_id |-> Null, tenant |-> Null, batch |-> <<>>,
     sargs |-> NoArgs,
     status |-> Null, ret |-> 0, pre |-> EmptyStore, solo |-> TRUE]

NoObs ==
    [op |-> Null, user_id |-> Null, tenant_id |-> Null, tenant |-> Null,
     context_id |-> Null, result |-> {}]

\* no pure function has been called
NoArg == [op |-> Null]

NoRes == [op |-> Null]

\* a plausible slip: nothing to write, nothing done
ImportCallUnlessEmpty(g, contexts, user_id, tenant_id) ==
    LET tenant == ImportTenant(tenant_id)
    IN [pc |-> "run", op |-> "import", user_id |-> user_id, tenant_id |-> tenant_id,
        tenant |-> tenant,
        batch |-> contexts, sargs |-> NoArgs,
        todo |-> IF ImportNormalized(contexts) # <<>>
                 THEN <<Stmt("clear", Null, Null, Null, Null),
                        Stmt("merge", Null, Null, Null, Null)>>
                 ELSE <<>>,
        pre |-> ScopeSub(g, user_id, tenant), solo |-> TRUE]

\* import_contexts up to the session: tenant and normalized are computed
ImportCall(g, contexts, user_id, tenant_id) ==
    LET tenant == ImportTenant(tenant_id)
    IN [pc |-> "run", op |-> "import", user_id |-> user_id, tenant_id |-> tenant_id,
        tenant |-> tenant,
        batch |-> contexts, sargs |-> NoArgs,
        todo |-> <<Stmt("clear", Null, Null, Null, Null)>>
                 \o (IF ImportNormalized(contexts) # <<>>
                     THEN <<Stmt("merge", Null, Null, Null, Null)>> ELSE <<>>),
        pre |-> ScopeSub(g, user_id, tenant), solo |-> TRUE]

\* store_decision_graph up to the session
StoreCall(g, user_id, project_id, document_id, graph_id, contexts, tenant_id) ==
    LET tenant == StoreTenant(user_id, tenant_id)
    IN [pc |-> "run", op |-> "store", user_id |-> user_id, tenant_id |-> tenant_id,
        tenant |-> tenant,
        batch |-> contexts,
        sargs |-> [project_id |-> project_id, document_id |-> document_id,
                   graph_id |-> graph_id],
        todo |-> StoreStmts(contexts),
        pre |-> ScopeSub(g, user_id, tenant), solo |-> TRUE]

\* one transaction / statement of call c against the store
Exec(g, st, c) ==
    CASE st.k = "clear" -> ClearUserGraph(g, c.user_id, c.tenant)
      [] st.k = "merge" -> MergeContexts(g, ImportNormalized(c.batch), c.user_id, c.tenant)
      [] OTHER -> RunStmt(g, st, [user_id |-> c.user_id, tenant |-> c.tenant,
                                  project_id |-> c.sargs.project_id,
                                  document_id |-> c.sargs.document_id,
                                  graph_id |-> c.sargs.graph_id])

\* all transactions of call c, none failing, nothing in between
RECURSIVE RunFrom(_, _, _)
RunFrom(g, todo, c) ==
    IF todo = <<>> THEN g
    ELSE LET next == Exec(g, Head(todo), c)
         IN IF next = next THEN RunFrom(next, Tail(todo), c) ELSE g

RunAll(g, c) == RunFrom(g, c.todo, c)

\* what the caller gets back: import_contexts returns len(normalized)
Ended(c, status) ==
    [op |-> c.op, user_id |-> c.user_id, tenant_id |-> c.tenant_id, tenant |-> c.tenant,
     batch |-> c.batch,
     sargs |-> c.sargs, status |-> status,
     ret |-> IF c.op = "import" /\ status = "ok" THEN Len(ImportNormalized(c.batch)) ELSE 0,
     pre |-> c.pre, solo |-> c.solo]

\* a database earlier syncs have written: cB imported into (u1, t1), cA stored
\* into (u2, t1)
SeedStore ==
    LET g1 == RunAll(EmptyStore, ImportCall(EmptyStore, <<cB>>, "u1", "t1"))
    IN RunAll(g1, StoreCall(g1, "u2", "p1", "D1", "g1", <<cA>>, "t1"))

Init ==
    /\ store \in {EmptyStore, SeedStore}
    /\ procs = [p \in Procs |-> Idle]
    /\ ncalls = 0
    /\ last = NoCall
    /\ prev = NoCall
    /\ obs = NoObs
    /\ arg = NoArg
    /\ res = NoRes

(***************************************************************************)
(* Spec: calls one after the other, the store never failing; when the      *)
(* calls are over a reader looks at the scope last written (reads change   *)
(* nothing, so a call after a read reaches no other store; readers between *)
(* the transactions of calls are in SpecConc).  prev keeps the arguments   *)
(* of the call before the last, not its snapshot.                          *)
(***************************************************************************)
Call(c) ==
    /\ ncalls < MaxCalls
    /\ obs = NoObs
    /\ store' = RunAll(store, c)
    /\ last' = Ended(c, "ok")
    /\ prev' = [last EXCEPT !.pre = EmptyStore]
    /\ ncalls' = ncalls + 1
    /\ obs' = NoObs
    /\ UNCHANGED <<procs, pure>>

ImportContexts(contexts, user_id, tenant_id) ==
    Call(ImportCall(store, contexts, user_id, tenant_id))

StoreDecisionGraph(user_id, project_id, document_id, graph_id, contexts, tenant_id) ==
    Call(StoreCall(store, user_id, project_id, document_id, graph_id, contexts, tenant_id))

Fetch(user_id, tenant_id, context_id) ==
    /\ obs' = [op |-> "fetch", user_id |-> user_id, tenant_id |-> tenant_id,
               tenant |-> Or(tenant_id, "public"),
               context_id |-> context_id,
               result |-> FetchDecisionGraph(store, user_id, tenant_id, context_id)]
    /\ UNCHANGED <<store, procs, ncalls, last, prev, pure>>

Load(user_id, tenant_id) ==
    /\ obs' = [op |-> "load", user_id |-> user_id, tenant_id |-> tenant_id,
               tenant |-> Or(tenant_id, user_id),
               context_id |-> Null,
               result |-> LoadContextsFromDb(store, user_id, tenant_id)]
    /\ UNCHANGED <<store, procs, ncalls, last, prev, pure>>

\* a call has returned and nobody has read since
Quiet == last.op # Null /\ obs = NoObs

Next ==
    \/ \E b \in ImportBatches, who \in Callers : ImportContexts(b, who[1], who[2])
    \/ \E b \in StoreBatches, who \in Callers, pr \in ProjectIds, d \in DocumentIds,
          gid \in GraphIds :
            StoreDecisionGraph(who[1], pr, d, gid, b, who[2])
    \/ \E c \in ContextIdArgs : Quiet /\ Fetch(last.user_id, last.tenant, c)
    \/ Quiet /\ Load(last.user_id, last.tenant)

Spec == Init /\ [][Next]_vars

(***************************************************************************)
(* SpecConc: two workers, each making one call, concurrently; the store    *)
(* commits one transaction at a time; a transaction may fail; readers look *)
(* at any time.  The workers are interchangeable: worker 2 calls after     *)
(* worker 1 has called.                                                    *)
(***************************************************************************)
ConcCallers == {<<"u1", Null>>, <<"u1", "t1">>}
ConcImportBatches == {<<cA>>, <<cB>>}
ConcStoreBatches == {<<cA>>}

Begin(p, c) ==
    /\ procs[p].pc = "idle"
    /\ \A q \in Procs : q < p => procs[q].pc # "idle"
    /\ procs' = [q \in Procs |->
                    IF q = p THEN [c EXCEPT !.solo = \A r \in Procs : procs[r].pc # "run"]
                    ELSE [procs[q] EXCEPT !.solo = (procs[q].pc # "run")]]
    /\ ncalls' = ncalls + 1
    /\ obs' = NoObs
    /\ UNCHANGED <<store, last, prev, pure>>

BeginImport(p, contexts, user_id, tenant_id) ==
    Begin(p, ImportCall(store, contexts, user_id, tenant_id))

BeginStore(p, user_id, project_id, document_id, graph_id, contexts, tenant_id) ==
    Begin(p, StoreCall(store, user_id, project_id, document_id, graph_id, contexts, tenant_id))

\* the next transaction of worker p commits
Step(p) ==
    /\ procs[p].pc = "run"
    /\ procs[p].todo # <<>>
    /\ store' = Exec(store, Head(procs[p].todo), procs[p])
    /\ procs' = [procs EXCEPT ![p].todo = Tail(@)]
    /\ obs' = NoObs
    /\ UNCHANGED <<ncalls, last, prev, pure>>

Done == [Idle EXCEPT !.pc = "done"]

\* the call of worker p returns
Return(p) ==
    /\ procs[p].pc = "run"
    /\ procs[p].todo = <<>>
    /\ last' = Ended(procs[p], "ok")
    /\ prev' = [last EXCEPT !.pre = EmptyStore]
    /\ procs' = [procs EXCEPT ![p] = Done]
    /\ obs' = NoObs
    /\ UNCHANGED <<store, ncalls, pure>>

\* the next transaction of worker p raises (store unreachable, transaction
\* failed): Neo4j rolls that one transaction back and the exception leaves
\* the function; nothing in either writer catches it
Fail(p) ==
    /\ procs[p].pc = "run"
    /\ procs[p].todo # <<>>
    /\ last' = Ended(procs[p], "error")
    /\ prev' = [last EXCEPT !.pre = EmptyStore]
    /\ procs' = [procs EXCEPT ![p] = Done]
    /\ obs' = NoObs
    /\ UNCHANGED <<store, ncalls, pure>>

NextConc ==
    \/ \E p \in Procs, b \in ConcImportBatches, who \in ConcCallers :
            BeginImport(p, b, who[1], who[2])
    \/ \E p \in Procs, b \in ConcStoreBatches, who \in ConcCallers, pr \in ProjectIds,
          d \in DocumentIds, gid \in GraphIds :
            BeginStore(p, who[1], pr, d, gid, b, who[2])
    \/ \E p \in Procs : Step(p)
    \/ \E p \in Procs : Return(p)
    \/ \E p \in Procs : Fail(p)
    \/ \E who \in ConcCallers :
            obs = NoObs /\ Fetch(who[1], Or(who[2], "public"), Null)
    \/ \E who \in ConcCallers : obs = NoObs /\ Load(who[1], Or(who[2], who[1]))

SpecConc == Init /\ [][NextConc]_vars

(***************************************************************************)
(* SpecSim: build_similarity applied to a target, a corpus and a limit.    *)
(***************************************************************************)
MaxCorpus == 3
MaxLimit == 3

SimCtx(id, conditions) == Override(EmptyCtx, [context_id |-> id, conditions |-> conditions])

\* condition lists whose overlaps give 1, 4/5, 2/3, 3/5, 2/5 and 0; sC equals sA
\* once resolved and lower-cased, sF resolves to nothing
sA == SimCtx("A", <<"x", "y">>)
sB == SimCtx("B", <<"x", "y", "z">>)
sC == SimCtx("C", <<"X", "y ">>)
sD == SimCtx("D", <<"x", "y", "z", "q", "r">>)
sE == SimCtx("E", <<"x", "y", "z", "q", "w">>)
sF == SimCtx("F", <<"", " ">>)
sH == SimCtx("H", <<"p">>)

SimCatalogue == {sA, sB, sC, sD, sE, sF, sH}

Corpora == UNION {[1..k -> SimCatalogue] : k \in 0..MaxCorpus}

SimArgs ==
    {[op |-> "similarity", context |-> c, contexts |-> cs, limit |-> l] :
        c \in SimCatalogue, cs \in Corpora, l \in 0..MaxLimit}

\* the variables of the graph store, at rest
StoreAtRest ==
    /\ store = EmptyStore
    /\ procs = [p \in Procs |-> Idle]
    /\ ncalls = 0
    /\ last = NoCall
    /\ prev = NoCall
    /\ obs = NoObs

InitSim == StoreAtRest /\ arg \in SimArgs /\ res = NoRes

Similarity ==
    /\ arg.op = "similarity"
    /\ res = NoRes
    /\ res' = [op |-> "similarity",
               out |-> BuildSimilarity(arg.context, arg.contexts, arg.limit)]
    /\ UNCHANGED <<store, procs, ncalls, last, prev, obs, arg>>

SpecSim == InitSim /\ [][Similarity]_vars

(***************************************************************************)
(* SpecImports: import_contexts calls only, one after the other, from an   *)
(* empty database.                                                         *)
(***************************************************************************)
InitImports == StoreAtRest /\ arg = NoArg /\ res = NoRes

NextImports ==
    \/ \E b \in ImportBatches, who \in Callers : ImportContexts(b, who[1], who[2])
    \/ \E c \in ContextIdArgs : Quiet /\ Fetch(last.user_id, last.tenant, c)
    \/ Quiet /\ Load(last.user_id, last.tenant)

SpecImports == InitImports /\ [][NextImports]_vars

(***************************************************************************)
(* SpecTenant: one user calling the two writers and the two readers with   *)
(* tenant_id omitted, empty or given, over a database that holds a graph   *)
(* in each of the user's scopes.                                           *)
(***************************************************************************)
TenantArgs == {Null, "", "t1"}

\* cA imported without a tenant, cB stored without a tenant, cB imported into
\* t1, and cA imported by another user
TenantSeed ==
    CHOOSE g4 \in
        {RunAll(g3, ImportCall(g3, <<cA>>, "u2", Null)) : g3 \in
            {RunAll(g2, ImportCall(g2, <<cB>>, "u1", "t1")) : g2 \in
                {RunAll(g1, StoreCall(g1, "u1", "p1", "D1", "g1", <<cB>>, Null)) : g1 \in
                    {RunAll(EmptyStore, ImportCall(EmptyStore, <<cA>>, "u1", Null))}}}} :
        TRUE

InitTenant ==
    /\ store \in {EmptyStore, TenantSeed}
    /\ procs = [p \in Procs |-> Idle]
    /\ ncalls = 0
    /\ last = NoCall
    /\ prev = NoCall
    /\ obs = NoObs
    /\ arg = NoArg
    /\ res = NoRes

NextTenant ==
    \/ \E b \in ConcImportBatches, t \in TenantArgs : ImportContexts(b, "u1", t)
    \/ \E b \in ConcStoreBatches, t \in TenantArgs, pr \in ProjectIds, d \in DocumentIds,
          gid \in GraphIds :
            StoreDecisionGraph("u1", pr, d, gid, b, t)
    \/ \E t \in TenantArgs, c \in ContextIdArgs : obs = NoObs /\ Fetch("u1", t, c)
    \/ \E t \in TenantArgs : obs = NoObs /\ Load("u1", t)

SpecTenant == InitTenant /\ [][NextTenant]_vars

(***************************************************************************)
(* SpecBuild: build_context_graph and build_decision_graph applied to a    *)
(* context (and a corpus and a limit).                                     *)
(***************************************************************************)
MaxBuildCorpus == 2

\* every value repeated: an entity as role and as system, conditions that
\* differ before stripping, two boundaries of one type, itself among evolves_to
cRepeats ==
    Override(EmptyCtx,
        [context_id |-> "A", title |-> TStr("TA"),
         entities |-> <<[name |-> "op", type |-> "Role"],
                        [name |-> "op", type |-> "system"],
                        [name |-> "op", type |-> "Role"]>>,
         conditions |-> <<"x", "y ", "x", "y", "">>,
         observed_issues |-> <<"i", "i">>, outcomes |-> <<"o", "o">>,
         recommended_solutions |-> <<"s", "s">>,
         decision_boundaries |-> <<[boundary_type |-> "bt", description |-> "dA"],
                                   [boundary_type |-> "bt", description |-> "dB"]>>,
         evolves_to |-> <<"A", "B", "B", " ">>])

BuildCatalogue == {cA, cB, cA2, cEmptyId, cNoId, cBlankId, cRepeats}

BuildCorpora == UNION {[1..k -> BuildCatalogue] : k \in 0..MaxBuildCorpus}

BuildArgs ==
    {[op |-> "context_graph", context |-> c, contexts |-> <<>>, limit |-> 0] :
        c \in BuildCatalogue}
    \cup {[op |-> "decision_graph", context |-> c, contexts |-> cs, limit |-> l] :
            c \in BuildCatalogue, cs \in BuildCorpora, l \in 0..MaxLimit}

InitBuild == StoreAtRest /\ arg \in BuildArgs /\ res = NoRes

ContextGraph ==
    /\ arg.op = "context_graph"
    /\ res = NoRes
    /\ res' = [op |-> "context_graph", out |-> BuildContextGraph(arg.context)]
    /\ UNCHANGED <<store, procs, ncalls, last, prev, obs, arg>>

DecisionGraph ==
    /\ arg.op = "decision_graph"
    /\ res = NoRes
    /\ res' = [op |-> "decision_graph",
               out |-> BuildDecisionGraph(arg.context, arg.contexts, arg.limit)]
    /\ UNCHANGED <<store, procs, ncalls, last, prev, obs, arg>>

NextBuild == ContextGraph \/ DecisionGraph

SpecBuild == InitBuild /\ [][NextBuild]_vars

(***************************************************************************)
(* context_graph.py: _normalize_context.  A JSON value is a record: k its  *)
(* Python type ("absent" for a key the map lacks), s the text of a string, *)
(* number or bool, l the items of a list, f the keys of a dict.            *)
(***************************************************************************)
NoFields ==
    [en |-> Null, zh |-> Null, section |-> Null, page |-> Null,
     boundary_type |-> Null, description |-> Null]

VAbsent == [k |-> "absent", s |-> Null, l |-> <<>>, f |-> NoFields]
VNone == [k |-> "none", s |-> Null, l |-> <<>>, f |-> NoFields]
VStr(s) == [k |-> "str", s |-> s, l |-> <<>>, f |-> NoFields]
VNum(s) == [k |-> "num", s |-> s, l |-> <<>>, f |-> NoFields]
VBool(s) == [k |-> "bool", s |-> s, l |-> <<>>, f |-> NoFields]
VList(l) == [k |-> "list", s |-> Null, l |-> l, f |-> NoFields]
VDict(f) == [k |-> "dict", s |-> Null, l |-> <<>>, f |-> Override(NoFields, f)]

\* raw.get(key): None for a key the map lacks
Get(v) == IF v.k = "absent" THEN VNone ELSE v

\* raw.get(key, default)
GetOr(v, default) == IF v.k = "absent" THEN default ELSE v

\* Python truth value
PyTruthy(v) ==
    CASE v.k \in {"absent", "none"} -> FALSE
      [] v.k = "str"  -> v.s # ""
      [] v.k = "num"  -> v.s \notin {"0", "0.0"}
      [] v.k = "bool" -> v.s = "True"
      [] v.k = "list" -> v.l # <<>>
      [] OTHER        -> v.f # NoFields

\* raw.get(a) or raw.get(b)
PyOr(a, b) == IF PyTruthy(a) THEN Get(a) ELSE Get(b)

\* repr() of a list item, str() of a value
PyRepr(v) ==
    CASE v.k = "str"  -> "'" \o v.s \o "'"
      [] v.k \in {"absent", "none"} -> "None"
      [] v.k = "dict" -> IF v.f = NoFields THEN "{}" ELSE "{...}"
      [] OTHER        -> v.s

PyStr(v) ==
    CASE v.k = "str"  -> v.s
      [] v.k = "list" ->
            "[" \o FoldSeq(LAMBDA acc, x : IF acc = "" THEN PyRepr(x)
                                            ELSE acc \o ", " \o PyRepr(x), "", v.l) \o "]"
      [] OTHER        -> PyRepr(v)

\* _resolve_text on a JSON value
ResolveTextOf(v) ==
    CASE v.k = "dict" -> Strip(Or(v.f.en, Or(v.f.zh, "")))
      [] v.k \in {"absent", "none"} -> ""
      [] OTHER        -> Strip(PyStr(v))

\* _normalize_source_note
NormalizeSourceNote(v) ==
    IF v.k = "dict"
    THEN LET section == Strip(Or(v.f.section, ""))
             page == Strip(Or(v.f.page, ""))
         IN IF section # "" /\ page # "" THEN section \o ", p." \o page
            ELSE Or(section, page)
    ELSE ResolveTextOf(v)

\* _ensure_list
EnsureList(v) ==
    CASE v.k \in {"absent", "none"} -> <<>>
      [] v.k = "list" -> v.l
      [] OTHER        -> <<v>>

\* the texts float() accepts, in hundredths
FloatTexts == [t \in {"0", "0.0", "0.7", "1"} |->
                  CASE t = "0.7" -> 70 [] t = "1" -> 100 [] OTHER -> 0]

\* float(value or 0.0), in hundredths; error names the exception raised
PyFloat(v) ==
    CASE ~PyTruthy(v) -> [error |-> Null, value |-> 0]
      [] v.k = "bool" -> [error |-> Null, value |-> 100]
      [] v.k \in {"str", "num"} ->
            IF Strip(v.s) \in DOMAIN FloatTexts
            THEN [error |-> Null, value |-> FloatTexts[Strip(v.s)]]
            ELSE [error |-> "ValueError", value |-> 0]
      [] OTHER        -> [error |-> "TypeError", value |-> 0]

\* the keys _normalize_context reads, none of them present
EmptyRaw ==
    [key \in {"context_id", "decision_level", "title", "title_text", "context_type",
              "scenario_summary", "context_intents", "context_scope", "entities",
              "conditions", "observed_issues", "observed_issues_or_risks", "outcomes",
              "outcomes_or_consequences", "recommended_solutions", "decision_boundaries",
              "counterfactuals", "confidence_score", "source_note", "source_reference",
              "llm_usage_policy", "document_id", "document_title", "evolves_to"}
        |-> VAbsent]

EmptyMeta == [document_id |-> VAbsent, document_title |-> VAbsent]

SelectSeq2(sq, Test(_)) == FoldSeq(LAMBDA acc, x : IF Test(x) THEN Append(acc, x) ELSE acc, <<>>, sq)

MapSeq(sq, F(_)) == [i \in 1..Len(sq) |-> F(sq[i])]

\* _normalize_context: the record returned, or the exception float() raises
NormalizeContext(raw, document_meta) ==
    LET title0 == LET a == PyOr(raw.title, raw.title_text)
                  IN IF PyTruthy(a) THEN a ELSE VDict([en |-> Null])
        title1 == IF title0.k = "str" THEN VDict([en |-> title0.s]) ELSE title0
        inferred == LET a == PyOr(raw.context_type, raw.scenario_summary)
                    IN IF PyTruthy(a) THEN a ELSE Get(raw.context_id)
        title == IF PyTruthy(title1) THEN title1
                 ELSE VDict([en |-> ResolveTextOf(inferred)])
        intents == LET a == PyOr(raw.context_intents, raw.context_type)
                   IN EnsureList(IF PyTruthy(a) THEN a ELSE Get(raw.context_scope))
        boundaries == SelectSeq2(EnsureList(raw.decision_boundaries), LAMBDA b : b.k = "dict")
        score == PyFloat(raw.confidence_score)
    IN [error |-> score.error,
        out |->
          [context_id |-> GetOr(raw.context_id, VStr("")),
           decision_level |-> Get(raw.decision_level),
           title |-> title,
           context_intents |-> MapSeq(SelectSeq2(intents, PyTruthy), PyStr),
           entities |-> EnsureList(raw.entities),
           conditions |-> EnsureList(raw.conditions),
           observed_issues |-> EnsureList(PyOr(raw.observed_issues, raw.observed_issues_or_risks)),
           outcomes |-> EnsureList(PyOr(raw.outcomes, raw.outcomes_or_consequences)),
           recommended_solutions |-> EnsureList(raw.recommended_solutions),
           decision_boundaries |->
               MapSeq(boundaries, LAMBDA b :
                   [boundary_type |-> Coalesce(b.f.boundary_type, "unspecified"),
                    description |-> Coalesce(b.f.description, ""),
                    affected_roles |-> <<>>]),
           counterfactuals |-> EnsureList(raw.counterfactuals),
           confidence_score |-> score.value,
           source_note |-> NormalizeSourceNote(PyOr(raw.source_note, raw.source_reference)),
           llm_usage_policy |-> Get(raw.llm_usage_policy),
           document_id |-> PyOr(raw.document_id, document_meta.document_id),
           document_title |-> PyOr(raw.document_title, document_meta.document_title),
           document_metadata |-> document_meta,
           evolves_to |-> EnsureList(raw.evolves_to)]]

(***************************************************************************)
(* SpecNorm: _normalize_context applied to a raw map.                      *)
(***************************************************************************)
MaxItems == 1

ItemsOf(x) == {VList([i \in 1..n |-> x]) : n \in 0..MaxItems}

\* values of confidence_score: absent, null, numbers, texts, a bool, lists
ScoreValues ==
    {VAbsent, VNone, VNum("0.7"), VNum("0"), VStr("0.7"), VStr(""), VStr("abc"),
     VBool("True")} \cup ItemsOf(VStr("a"))

\* values of a list field: absent, null, lists, and falsy and truthy scalars
PrimaryValues ==
    {VAbsent, VNone, VStr(""), VStr("i"), VNum("0"), VBool("False")} \cup ItemsOf(VStr("i"))

AliasValues == {VAbsent, VList(<<VStr("r")>>)}

\* the other fields: all missing, or all given
RestValues ==
    {EmptyRaw,
     Override(EmptyRaw,
        [context_id |-> VStr("A"), title |-> VStr("TA"), context_type |-> VStr("kind"),
         entities |-> VList(<<VDict([en |-> "op"])>>), conditions |-> VStr("x"),
         recommended_solutions |-> VList(<<VStr("s")>>),
         decision_boundaries |-> VList(<<VDict([boundary_type |-> "bt"]), VStr("b")>>),
         counterfactuals |-> VNone,
         source_reference |-> VDict([section |-> "s1", page |-> "2"]),
         document_id |-> VStr("D1"), evolves_to |-> VStr("B")])}

MetaValues == {EmptyMeta, [document_id |-> VStr("D2"), document_title |-> VStr("Doc two")]}

NormArgs ==
    {[op |-> "normalize",
      raw |-> Override(rest, [confidence_score |-> cs, observed_issues |-> oi,
                              observed_issues_or_risks |-> oa, outcomes |-> oc,
                              outcomes_or_consequences |-> ob]),
      document_meta |-> dm] :
        rest \in RestValues, cs \in ScoreValues, oi \in PrimaryValues, oa \in AliasValues,
        oc \in {VAbsent, VList(<<>>), VStr("o")}, ob \in AliasValues, dm \in MetaValues}

InitNorm == StoreAtRest /\ arg \in NormArgs /\ res = NoRes

Normalize ==
    /\ arg.op = "normalize"
    /\ res = NoRes
    /\ LET r == NormalizeContext(arg.raw, arg.document_meta)
       IN res' = [op |-> "normalize", error |-> r.error,
                  out |-> IF r.error = Null THEN r.out ELSE EmptyRaw]
    /\ UNCHANGED <<store, procs, ncalls, last, prev, obs, arg>>

SpecNorm == InitNorm /\ [][Normalize]_vars

(***************************************************************************)
(* Observations the properties are stated over.                            *)
(***************************************************************************)
\* scope (u, t) of g with the internal ids left out: the nodes, the edges by
\* the nodes they join, and how many there are of each
View(g, u, t) ==
    LET sub == ScopeSub(g, u, t)
        Bare(n) == [n EXCEPT !.nid = 0]
        End(nid) ==
            IF \E n \in sub.nodes : n.nid = nid THEN Bare(NodeOf(sub, nid)) ELSE BlankNode
    IN [nodes |-> {Bare(n) : n \in sub.nodes},
        edges |-> {[src |-> End(e.src), typ |-> e.typ, dst |-> End(e.dst),
                    reason |-> e.reason, graph_id |-> e.graph_id] : e \in sub.edges},
        nnodes |-> Cardinality(sub.nodes),
        nedges |-> Cardinality(sub.edges)]

ContextIds(g, u, t) == {n.context_id : n \in Match(g, "Context", Scope(u, t))}

CountOf(g, lbl, u, t) == Cardinality(Match(g, lbl, Scope(u, t)))

\* the store an import of batch into an empty database leaves
ImportAlone(batch, u, t) == RunAll(EmptyStore, ImportCall(EmptyStore, batch, u, t))

LastImported == last.op = "import" /\ last.status = "ok"

LastStored == last.op = "store" /\ last.status = "ok"

(***************************************************************************)
(* C1                                                                      *)
(***************************************************************************)
SameImportTwice ==
    /\ LastImported
    /\ prev.op = "import" /\ prev.status = "ok"
    /\ prev.user_id = last.user_id /\ prev.tenant = last.tenant
    /\ prev.batch = last.batch
    /\ Len(last.batch) = 1 /\ ImportKeeps(last.batch[1])

\* C1: when import_contexts has run twice in succession with the same single
\* context (non-empty context_id) for the same user and tenant, the scope holds
\* exactly one Context node and exactly one Document node, and the scope is as
\* the first call left it.
ImportIdempotent ==
    SameImportTwice =>
        /\ CountOf(store, "Context", last.user_id, last.tenant) = 1
        /\ CountOf(store, "Document", last.user_id, last.tenant) = 1
        /\ View(store, last.user_id, last.tenant) = View(last.pre, last.user_id, last.tenant)

\* the context with every list field populated imported twice, another scope
\* holding a graph meanwhile
ImportIdempotentWitness ==
    /\ SameImportTwice
    /\ last.batch = <<cB>>
    /\ last.pre.nodes # {}
    /\ \E n \in store.nodes : ~InScope(n, last.user_id, last.tenant)

(***************************************************************************)
(* C2                                                                      *)
(***************************************************************************)
\* the non-empty context_ids of the records of a batch
BatchIds(batch) == {ToDict(r).context_id : r \in {x \in Range(batch) : Truthy(ToDict(x).context_id)}}

\* C2: after import_contexts(batch, user_id, tenant_id) has returned, whatever
\* the store held before, the context_ids of the Context nodes of the scope are
\* exactly the non-empty context_ids of the batch, and the scope holds exactly
\* what the batch alone produces: nothing of an earlier sync survives.
ImportReplaces ==
    LastImported =>
        /\ ContextIds(store, last.user_id, last.tenant) = BatchIds(last.batch)
        /\ View(store, last.user_id, last.tenant)
             = View(ImportAlone(last.batch, last.user_id, last.tenant),
                    last.user_id, last.tenant)

\* a batch with a record that is dropped, imported over a scope that held
\* another context
ImportReplacesWitness ==
    /\ LastImported
    /\ last.batch = <<cEmptyId, cA>>
    /\ \E n \in last.pre.nodes : n.lbl = "Context" /\ n.context_id = "B"

(***************************************************************************)
(* C3                                                                      *)
(***************************************************************************)
EdgesWithinScope ==
    \A e \in store.edges :
        LET a == NodeOf(store, e.src)
            b == NodeOf(store, e.dst)
        IN a.user_id = b.user_id /\ a.tenant_id = b.tenant_id

\* what the call that has just returned matched or changed lies in its scope
WritesWithinScope ==
    LET mine(n) == InScope(n, last'.user_id, last'.tenant)
        kept == {n \in store.nodes : ~mine(n)}
        ids == {n.nid : n \in kept}
    IN /\ kept = {n \in store'.nodes : ~mine(n)}
       /\ {e \in store.edges : e.src \in ids \/ e.dst \in ids}
            = {e \in store'.edges : e.src \in ids \/ e.dst \in ids}

\* C3: in every store state that calls of import_contexts and
\* store_decision_graph reach, every edge joins two nodes with the same
\* (user_id, tenant_id), and a call for one scope leaves the nodes of every
\* other scope, and the edges at them, as they were.
TenantIsolation == []EdgesWithinScope /\ [][ncalls' # ncalls => WritesWithinScope]_vars

\* two tenants of one user hold a node of the same label and name, and two
\* scopes hold a node with the same id
TenantIsolationWitness ==
    /\ \E n, m \in store.nodes :
          /\ n.lbl = "Condition" /\ m.lbl = "Condition"
          /\ n.name # Null /\ n.name = m.name
          /\ n.user_id = m.user_id /\ n.tenant_id # m.tenant_id
    /\ \E n, m \in store.nodes :
          /\ n.id # Null /\ n.id = m.id /\ n.lbl = m.lbl
          /\ <<n.user_id, n.tenant_id>> # <<m.user_id, m.tenant_id>>
    /\ store.edges # {}
    /\ last.op = "store"

(***************************************************************************)
(* C4                                                                      *)
(***************************************************************************)
\* worker p, inside import_contexts, commits a transaction in this step
ImportCommits(p) ==
    /\ procs[p].pc = "run" /\ procs[p].op = "import"
    /\ procs[p].todo # <<>>
    /\ procs'[p].pc = "run" /\ procs'[p].todo = Tail(procs[p].todo)

SameElsewhere(p) ==
    \A sc \in AllScopes \ {Scope(procs[p].user_id, procs[p].tenant)} :
        /\ ScopeSub(store', sc.user_id, sc.tenant_id) = ScopeSub(store, sc.user_id, sc.tenant_id)
        /\ \A c \in ContextIdArgs :
              FetchDecisionGraph(store', sc.user_id, sc.tenant_id, c)
                = FetchDecisionGraph(store, sc.user_id, sc.tenant_id, c)
        /\ LoadContextsFromDb(store', sc.user_id, sc.tenant_id)
             = LoadContextsFromDb(store, sc.user_id, sc.tenant_id)

\* C4: every transaction import_contexts(batch, u, t) commits, whatever else is
\* in flight, leaves the nodes and edges of every scope other than (u, t) as
\* they were, and with them what fetch_decision_graph and load_contexts_from_db
\* return for those scopes.
ImportFrame == [][\A p \in Procs : ImportCommits(p) => SameElsewhere(p)]_vars

\* an import interleaved with another call has committed all its transactions
\* while another scope holds a graph
ImportFrameWitness ==
    \E p \in Procs :
        /\ procs[p].pc = "run" /\ procs[p].op = "import" /\ procs[p].todo = <<>>
        /\ ~procs[p].solo
        /\ \E n \in store.nodes : ~InScope(n, procs[p].user_id, procs[p].tenant)

(***************************************************************************)
(* C5                                                                      *)
(***************************************************************************)
BothImportsReturned ==
    /\ \A p \in Procs : procs[p].pc = "done"
    /\ LastImported
    /\ prev.op = "import" /\ prev.status = "ok"
    /\ prev.user_id = last.user_id /\ prev.tenant = last.tenant

\* C5: once two concurrent import_contexts calls on the same scope, with
\* batches B1 and B2, have both returned, the scope holds exactly the graph of
\* B1 or exactly the graph of B2.
SameScopeSerialized ==
    BothImportsReturned =>
        View(store, last.user_id, last.tenant)
            \in {View(ImportAlone(last.batch, last.user_id, last.tenant),
                      last.user_id, last.tenant),
                 View(ImportAlone(prev.batch, last.user_id, last.tenant),
                      last.user_id, last.tenant)}

(***************************************************************************)
(* C6                                                                      *)
(***************************************************************************)
ReadOf(g, op, u, t) ==
    IF op = "fetch" THEN FetchDecisionGraph(g, u, t, Null) ELSE LoadContextsFromDb(g, u, t)

\* C6: what a reader of scope (u, t) sees while one import_contexts(batch, u, t)
\* is the only call in flight is the graph from before the call or the graph
\* of the new batch.
ReaderSeesWhole ==
    \A p \in Procs :
        ( /\ obs.op # Null
          /\ procs[p].pc = "run" /\ procs[p].op = "import" /\ procs[p].solo
          /\ obs.user_id = procs[p].user_id /\ obs.tenant = procs[p].tenant )
        => obs.result \in
              {ReadOf(procs[p].pre, obs.op, obs.user_id, obs.tenant),
               ReadOf(RunFrom(store, procs[p].todo, procs[p]), obs.op,
                      obs.user_id, obs.tenant)}

(***************************************************************************)
(* C7                                                                      *)
(***************************************************************************)
\* C7: when a call of import_contexts or store_decision_graph has ended in
\* error, nothing else having been in flight, the scope is identical to what
\* it was before the call.
FailureLeavesScope ==
    ( /\ last.status = "error" /\ last.solo
      /\ \A p \in Procs : procs[p].pc # "run" )
    => ScopeSub(store, last.user_id, last.tenant) = last.pre

(***************************************************************************)
(* C8                                                                      *)
(***************************************************************************)
\* C8: the integer import_contexts returns is the number of Context nodes in
\* the scope after the call.
ReturnCountsContextNodes ==
    LastImported => last.ret = CountOf(store, "Context", last.user_id, last.tenant)

(***************************************************************************)
(* C9                                                                      *)
(***************************************************************************)
OneConditionOneOutcome(r) ==
    /\ r.dict /\ Truthy(r.context_id)
    /\ Len(r.conditions) = 1 /\ Len(r.outcomes) = 1
    /\ r.entities = <<>> /\ r.observed_issues = <<>>
    /\ r.recommended_solutions = <<>> /\ r.decision_boundaries = <<>>

\* a fetch of the scope an import of one such context has just written, the
\* scope having been empty before
FetchedAfterImport ==
    /\ obs.op = "fetch"
    /\ LastImported
    /\ Len(last.batch) = 1 /\ OneConditionOneOutcome(last.batch[1])
    /\ last.pre.nodes = {}

OfType(nodes, type) == {n \in nodes : n.type = type}

FetchedCore ==
    /\ Cardinality(OfType(obs.result.nodes, "context")) = 1
    /\ Cardinality(OfType(obs.result.nodes, "condition")) = 1
    /\ Cardinality(OfType(obs.result.nodes, "outcome")) = 1
    /\ \E o \in OfType(obs.result.nodes, "outcome") :
          /\ o.label = last.batch[1].outcomes[1]
          /\ {l \in obs.result.links : l.target = o.id}
                = {[source |-> "context:" \o last.batch[1].context_id, target |-> o.id,
                    label |-> "Leads to: " \o o.label]}

\* C9 as stated: the fetch returns exactly one Context node, one Condition
\* node, one Outcome node and exactly two links, the outcome link labelled
\* "Leads to: <outcome label>".
FetchShapeTwoLinks ==
    FetchedAfterImport => FetchedCore /\ Cardinality(obs.result.links) = 2

\* C9: the fetch returns exactly one Context node, one Condition node, one
\* Outcome node and the Document node of the context, and exactly three links:
\* the condition link, the outcome link labelled "Leads to: <outcome label>",
\* and the link from the document labelled "Document context".
FetchShape ==
    FetchedAfterImport =>
        /\ FetchedCore
        /\ Cardinality(OfType(obs.result.nodes, "document")) = 1
        /\ Cardinality(obs.result.nodes) = 4
        /\ Cardinality(obs.result.links) = 3
        /\ \E d \in OfType(obs.result.nodes, "document") :
              [source |-> d.id, target |-> "context:" \o last.batch[1].context_id,
               label |-> "Document context"] \in obs.result.links
        /\ \E c \in OfType(obs.result.nodes, "condition") :
              [source |-> c.id, target |-> "context:" \o last.batch[1].context_id,
               label |-> "Condition: " \o c.label] \in obs.result.links

FetchShapeWitness == FetchedAfterImport /\ obs.result.links # {}

(***************************************************************************)
(* C10                                                                     *)
(***************************************************************************)
\* the context_ids a batch carries or refers to
Mentioned(batch) ==
    {r.context_id : r \in Range(batch)}
    \cup UNION {Range(r.evolves_to) : r \in Range(batch)}

\* a store_decision_graph call has returned, and the scope held a Context
\* whose context_id the batch does not mention
StoredOverOthers ==
    /\ LastStored
    /\ \E n \in last.pre.nodes : n.lbl = "Context" /\ n.context_id \notin Mentioned(last.batch)

IsBoundary(n) == n.lbl \in {"DecisionBoundary", "Decision_boundary"}

\* what tells the boundary nodes of one context apart: the boundary_type
\* property (import_contexts) or the id (store_decision_graph)
BoundaryKind(n) == IF n.lbl = "DecisionBoundary" THEN n.boundary_type ELSE n.id

\* the description a boundary node keeps: description (import_contexts) or
\* label (store_decision_graph)
BoundaryText(n) == IF n.lbl = "DecisionBoundary" THEN n.description ELSE n.label

\* the boundary nodes of the scope last written that context cid is linked to
BoundariesOf(cid) ==
    {b \in store.nodes :
        /\ IsBoundary(b) /\ InScope(b, last.user_id, last.tenant)
        /\ \E e \in store.edges :
              /\ e.typ = "HAS_BOUNDARY" /\ e.dst = b.nid
              /\ LET c == NodeOf(store, e.src)
                 IN c.lbl = "Context" /\ c.context_id = cid}

\* the context_ids of the contexts linked to boundary node b
OwnersOf(b) ==
    {NodeOf(store, e.src).context_id :
        e \in {e \in store.edges : e.typ = "HAS_BOUNDARY" /\ e.dst = b.nid}}

\* a sync has returned whose batch has two contexts with different
\* context_ids, each with a boundary of the same boundary_type
SyncedSameTypeBoundaries ==
    /\ last.status = "ok"
    /\ \E i, j \in 1..Len(last.batch) :
          LET r == last.batch[i]
              q == last.batch[j]
          IN /\ Truthy(r.context_id) /\ Truthy(q.context_id)
             /\ r.context_id # q.context_id
             /\ \E b \in Range(r.decision_boundaries), d \in Range(q.decision_boundaries) :
                   b.boundary_type = d.boundary_type

\* C11: after a sync of a batch in which two different contexts each have a
\* decision boundary of the same boundary_type, every such boundary has its own
\* node in the scope, linked by HAS_BOUNDARY from its own context only and
\* keeping its own description, and no context has two boundary nodes of one
\* boundary_type.
BoundaryPerContext ==
    SyncedSameTypeBoundaries =>
        \A i \in 1..Len(last.batch) :
            LET r == last.batch[i]
            IN Truthy(r.context_id) =>
                  /\ \A b \in Range(r.decision_boundaries) :
                        \E n \in BoundariesOf(r.context_id) :
                            /\ OwnersOf(n) = {r.context_id}
                            /\ BoundaryText(n) = b.description
                  /\ \A n, m \in BoundariesOf(r.context_id) :
                        BoundaryKind(n) = BoundaryKind(m) => n = m

(***************************************************************************)
(* C12                                                                     *)
(***************************************************************************)
Similar == res.op = "similarity"

\* the set of lower-cased, resolved, non-empty condition strings of a context
Conds(c) == {Lower(Strip(v)) : v \in {v \in Range(c.conditions) : Strip(v) # ""}}

SharedWith(c, d) == Cardinality(Conds(c) \cap Conds(d))

LargerOf(c, d) ==
    IF Cardinality(Conds(c)) >= Cardinality(Conds(d))
    THEN Cardinality(Conds(c)) ELSE Cardinality(Conds(d))

\* C12: every entry build_similarity returns comes from a candidate of the
\* corpus with A and B non-empty and s > 0, and its label is "Success" iff
\* 5s >= 4m, "Failure" iff 3m <= 5s < 4m, "Irrelevant" iff 5s < 3m.
SimilarityScoreLabel ==
    Similar =>
        \A k \in 1..Len(res.out) :
            \E other \in Range(arg.contexts) :
                LET e == res.out[k]
                    sh == SharedWith(arg.context, other)
                    m == LargerOf(arg.context, other)
                IN /\ other.context_id = e.context_id
                   /\ Conds(arg.context) # {} /\ Conds(other) # {}
                   /\ sh > 0
                   /\ e.label = "Success" <=> 5 * sh >= 4 * m
                   /\ e.label = "Failure" <=> (3 * m <= 5 * sh /\ 5 * sh < 4 * m)
                   /\ e.label = "Irrelevant" <=> 5 * sh < 3 * m

\* the three labels in one result, with a candidate on each threshold
SimilarityScoreLabelWitness ==
    /\ Similar
    /\ arg.context = sD
    /\ {res.out[k].label : k \in 1..Len(res.out)} = {"Success", "Failure", "Irrelevant"}
    /\ \E other \in Range(arg.contexts) :
          5 * SharedWith(sD, other) = 4 * LargerOf(sD, other)
    /\ \E other \in Range(arg.contexts) :
          5 * SharedWith(sD, other) = 3 * LargerOf(sD, other)

(***************************************************************************)
(* C13                                                                     *)
(***************************************************************************)
\* C13: no entry build_similarity returns has the context_id of the target,
\* and a target whose normalized condition set is empty yields the empty list.
SimilarityNotSelf ==
    Similar =>
        /\ \A k \in 1..Len(res.out) : res.out[k].context_id # arg.context.context_id
        /\ Conds(arg.context) = {} => res.out = <<>>

\* the corpus holds the target twice, beside a candidate that is returned
SimilarityNotSelfWitness ==
    /\ Similar
    /\ Cardinality({i \in 1..Len(arg.contexts) : arg.contexts[i] = arg.context}) >= 2
    /\ res.out # <<>>

(***************************************************************************)
(* C14                                                                     *)
(***************************************************************************)
\* the candidates of the corpus that qualify, in corpus order
Qualifying ==
    LET Ok(other) ==
            /\ other.context_id # arg.context.context_id
            /\ SharedWith(arg.context, other) > 0
    IN SelectSeq(arg.contexts, Ok)

ScoreOf(other) == Score100(SharedWith(arg.context, other), LargerOf(arg.context, other))

\* how many qualifying candidates go before the i-th: those with a higher
\* score, and those with the same score earlier in the corpus
RankOf(i) ==
    Cardinality({j \in 1..Len(Qualifying) :
        \/ ScoreOf(Qualifying[j]) > ScoreOf(Qualifying[i])
        \/ (ScoreOf(Qualifying[j]) = ScoreOf(Qualifying[i]) /\ j < i)})

\* C14: the result of build_similarity is sorted by score, highest first,
\* entries of equal score in corpus order, and it is exactly the first
\* min(limit, number of qualifying candidates) entries of that ordering.
SimilarityOrdered ==
    Similar =>
        /\ Len(res.out) = Min(arg.limit, Len(Qualifying))
        /\ \A k \in 1..Len(res.out) :
              \E i \in 1..Len(Qualifying) :
                  /\ RankOf(i) = k - 1
                  /\ res.out[k].context_id = Qualifying[i].context_id
                  /\ res.out[k].score = ScoreOf(Qualifying[i])
        /\ \A k \in 1..(Len(res.out) - 1) : res.out[k].score >= res.out[k + 1].score

\* a tie between two different candidates inside the result, and a candidate
\* cut off by the limit
SimilarityOrderedWitness ==
    /\ Similar
    /\ Len(res.out) < Len(Qualifying)
    /\ \E k \in 1..(Len(res.out) - 1) :
          /\ res.out[k].score = res.out[k + 1].score
          /\ res.out[k].context_id # res.out[k + 1].context_id

(***************************************************************************)
(* C15                                                                     *)
(***************************************************************************)
Built == res.op \in {"context_graph", "decision_graph"}

\* the non-empty resolved texts of a list field
Texts(list) == {Strip(v) : v \in Range(list)} \ {""}

\* the node ids the values of a context call for
ValueIds(c) ==
    {"context:" \o Strip(c.context_id)}
    \cup {(IF e.type \in {"Role", "role"} THEN "role:" ELSE "entity:") \o Strip(e.name) :
            e \in {e \in Range(c.entities) : Strip(e.name) # ""}}
    \cup {"condition:" \o t : t \in Texts(c.conditions)}
    \cup {"issue:" \o t : t \in Texts(c.observed_issues)}
    \cup {"outcome:" \o t : t \in Texts(c.outcomes)}

\* those build_context_graph adds, and those build_decision_graph adds
SolutionIds(c) == {"solution:" \o t : t \in Texts(c.recommended_solutions)}

DecisionIds(c, similar) ==
    {"boundary:" \o Strip(c.context_id) \o ":" \o b.boundary_type :
        b \in Range(c.decision_boundaries)}
    \cup {"context:" \o t : t \in Texts(c.evolves_to)}
    \cup {"context:" \o similar[k].context_id :
            k \in {k \in 1..Len(similar) : similar[k].context_id \notin {Null, ""}}}

\* the description of the first boundary of a type
FirstDescription(c, type) ==
    LET i == CHOOSE i \in 1..Len(c.decision_boundaries) :
                /\ c.decision_boundaries[i].boundary_type = type
                /\ \A j \in 1..(i - 1) : c.decision_boundaries[j].boundary_type # type
    IN c.decision_boundaries[i].description

\* C15: the node list a builder returns has pairwise distinct ids; the ids are
\* exactly those the values of the context call for, however often a value
\* occurs (so a second call on the same input gives the same id set); and a
\* repeated value keeps the first label: the context node its title, a
\* boundary node the description of the first boundary of its type.
NodesByValue ==
    (Built /\ res.out.nodes # <<>>) =>
        LET ns == res.out.nodes
            c == arg.context
            ids == {ns[i].id : i \in 1..Len(ns)}
        IN /\ \A i, j \in 1..Len(ns) : ns[i].id = ns[j].id => i = j
           /\ ids = ValueIds(c) \cup
                    (IF res.op = "context_graph" THEN SolutionIds(c)
                     ELSE DecisionIds(c, BuildSimilarity(c, arg.contexts, arg.limit)))
           /\ \A i \in 1..Len(ns) :
                 /\ ns[i].id = "context:" \o Strip(c.context_id)
                      => ns[i].label = (CASE c.title.k = "str" -> c.title.s
                                          [] c.title.k = "dict" -> c.title.en
                                          [] OTHER -> c.context_id)
                 /\ \A b \in Range(c.decision_boundaries) :
                       ns[i].id = "boundary:" \o Strip(c.context_id) \o ":" \o b.boundary_type
                         => ns[i].label = FirstDescription(c, b.boundary_type)

\* the context with every value repeated, built against a corpus
NodesByValueWitness ==
    /\ res.op = "decision_graph"
    /\ arg.context = cRepeats
    /\ arg.contexts # <<>>
    /\ Len(res.out.links) > Len(res.out.nodes)

(***************************************************************************)
(* C16                                                                     *)
(***************************************************************************)
BlankContextId(c) == c.context_id \in {Null, "", " "}

\* C16: for a context whose context_id is missing, empty or whitespace, both
\* builders return {nodes: [], links: []}, whatever the other fields and the
\* corpus hold.
BlankIdEmptyGraph ==
    (Built /\ BlankContextId(arg.context)) => res.out = [nodes |-> <<>>, links |-> <<>>]

\* a whitespace id on a context with every list field populated, and a corpus
BlankIdEmptyGraphWitness ==
    /\ res.op = "decision_graph"
    /\ arg.context = cBlankId
    /\ arg.contexts # <<>>

(***************************************************************************)
(* C17                                                                     *)
(***************************************************************************)
Normalized == res.op = "normalize"

ListFields ==
    {"context_intents", "entities", "conditions", "observed_issues", "outcomes",
     "recommended_solutions", "decision_boundaries", "counterfactuals", "evolves_to"}

\* float() accepts it
Castable(v) ==
    \/ v.k \in {"num", "bool"}
    \/ v.k = "str" /\ v.s \in {"0", "0.0", "0.7", "1"}

\* C17: _normalize_context returns a record and never raises; a
\* confidence_score that is absent or that float() rejects gives 0.0; a raw
\* map without any optional field gives every list field [] and 0.0.
NormalizerTotal ==
    Normalized =>
        /\ res.error = Null
        /\ ~Castable(arg.raw.confidence_score) => res.out.confidence_score = 0
        /\ arg.raw = EmptyRaw =>
              /\ \A key \in ListFields : res.out[key] = <<>>
              /\ res.out.confidence_score = 0

(***************************************************************************)
(* C18                                                                     *)
(***************************************************************************)
PresentNotNull(v) == v.k \notin {"absent", "none"}

\* the canonical list of a value, as the record is to hold it
ListOf(v) == IF v.k = "list" THEN v.l ELSE <<v>>

\* C18: when observed_issues (outcomes) is present and not null, an empty
\* list, "", 0 or false included, the canonical field comes from it and the
\* alias is ignored; the alias is used only when the primary key is absent or
\* null.
AliasFirstPresent ==
    (Normalized /\ res.error = Null) =>
        /\ PresentNotNull(arg.raw.observed_issues)
              => res.out.observed_issues = ListOf(arg.raw.observed_issues)
        /\ PresentNotNull(arg.raw.outcomes)
              => res.out.outcomes = ListOf(arg.raw.outcomes)
        /\ ~PresentNotNull(arg.raw.observed_issues)
              => res.out.observed_issues = EnsureList(arg.raw.observed_issues_or_risks)
        /\ ~PresentNotNull(arg.raw.outcomes)
              => res.out.outcomes = EnsureList(arg.raw.outcomes_or_consequences)

(***************************************************************************)
(* C19                                                                     *)
(***************************************************************************)
NamedLabels == {"Role", "Entity", "Condition", "Issue", "Outcome", "Solution"}

\* the identity key of a node, by its label
IdentityKey(n) ==
    CASE n.lbl = "Document" -> n.document_id
      [] n.lbl = "Context"  -> n.context_id
      [] OTHER              -> n.name

\* the nodes labelled lbl and named name that an edge joins to the Context cid
LinkedTo(cid, lbl, name, u, t) ==
    {n \in Match(store, lbl, [name |-> name] @@ Scope(u, t)) :
        \E c \in Match(store, "Context", [context_id |-> cid] @@ Scope(u, t)) :
            \E e \in store.edges : {e.src, e.dst} = {n.nid, c.nid}}

\* the (label, name) pairs a record names
NamedBy(r) ==
    {<<IF e.type = "Role" THEN "Role" ELSE "Entity", e.name>> : e \in Range(r.entities)}
    \cup {<<"Condition", x>> : x \in Range(r.conditions)}
    \cup {<<"Issue", x>> : x \in Range(r.observed_issues)}
    \cup {<<"Outcome", x>> : x \in Range(r.outcomes)}
    \cup {<<"Solution", x>> : x \in Range(r.recommended_solutions)}

\* two records of the batch last imported, of different contexts, name one thing
SharedInBatch(r1, r2, x) ==
    /\ r1 \in Range(ImportNormalized(last.batch))
    /\ r2 \in Range(ImportNormalized(last.batch))
    /\ r1.context_id # r2.context_id
    /\ x \in NamedBy(r1) \cap NamedBy(r2)

\* C19: after any sequence of import_contexts calls, one after the other, no
\* two nodes of one scope share a label and an identity key (Document by
\* document_id, Context by context_id, Role, Entity, Condition, Issue, Outcome
\* and Solution by name); two contexts of the batch last imported that name the
\* same thing are joined to one shared node; and no two edges of one type join
\* the same two nodes.
IdentityKeysUnique ==
    /\ \A n, m \in store.nodes :
          (/\ n.lbl = m.lbl
           /\ n.lbl \in NamedLabels \cup {"Document", "Context"}
           /\ n.user_id = m.user_id /\ n.tenant_id = m.tenant_id
           /\ IdentityKey(n) = IdentityKey(m)) => n.nid = m.nid
    /\ \A e, f \in store.edges :
          (e.src = f.src /\ e.typ = f.typ /\ e.dst = f.dst) => e.eid = f.eid
    /\ LastImported =>
          \A r1, r2 \in Range(ImportNormalized(last.batch)) :
             \A x \in NamedBy(r1) \cap NamedBy(r2) :
                 SharedInBatch(r1, r2, x) =>
                    /\ Cardinality(LinkedTo(r1.context_id, x[1], x[2],
                                            last.user_id, last.tenant)) = 1
                    /\ LinkedTo(r1.context_id, x[1], x[2], last.user_id, last.tenant)
                         = LinkedTo(r2.context_id, x[1], x[2], last.user_id, last.tenant)

\* a batch of two contexts sharing a condition imported over a scope an
\* earlier import had filled
IdentityKeysUniqueWitness ==
    /\ LastImported
    /\ last.pre.nodes # {}
    /\ \E r1, r2 \in Range(ImportNormalized(last.batch)) :
          SharedInBatch(r1, r2, <<"Condition", "x">>)
    /\ Cardinality(LinkedTo("A", "Condition", "x", last.user_id, last.tenant)) = 1

(***************************************************************************)
(* C20                                                                     *)
(***************************************************************************)
\* the store after store_decision_graph is called again with the arguments of
\* the call that has just returned
StoredAgain ==
    RunAll(store, StoreCall(store, last.user_id, last.sargs.project_id,
                            last.sargs.document_id, last.sargs.graph_id,
                            last.batch, last.tenant))

\* C20: when store_decision_graph has returned, calling it again with the
\* same arguments leaves the nodes, their properties and the edges as they
\* are; and every context of the batch is one Context node, also when an
\* earlier context of the batch had named it as similar or as evolves_to.
StoreIdempotent ==
    LastStored =>
        /\ StoredAgain = store
        /\ \A r \in Range(SelectSeq(last.batch, StoreKeeps)) :
              Cardinality(Match(store, "Context",
                                [context_id |-> r.context_id]
                                    @@ Scope(last.user_id, last.tenant))) = 1

(***************************************************************************)
(* C21                                                                     *)
(***************************************************************************)
Fetched == obs.op = "fetch"

\* the ids of the Context nodes a fetch has returned
ReturnedContexts == {n.id : n \in {n \in obs.result.nodes : n.type = "context"}}

TouchesContext(l) == l.source \in ReturnedContexts \/ l.target \in ReturnedContexts

\* C21: every link fetch_decision_graph returns has a returned Context node as
\* its source or its target, and every node it returns is such a Context node
\* or an end of such a link, with context_id given or omitted.
FetchTouchesContexts ==
    Fetched =>
        /\ \A l \in obs.result.links : TouchesContext(l)
        /\ \A n \in obs.result.nodes :
              \/ n.type = "context"
              \/ \E l \in obs.result.links :
                    TouchesContext(l) /\ n.id \in {l.source, l.target}

(***************************************************************************)
(* C22                                                                     *)
(***************************************************************************)
\* the positions of the SIMILAR_TO links in the graph built
SimilarLinks ==
    {i \in 1..Len(res.out.links) : res.out.links[i].label = "SIMILAR_TO"}

\* C22: build_decision_graph emits at most one SIMILAR_TO link per target
\* context node, also when the corpus holds several records with one
\* context_id, and no SIMILAR_TO link to the node of the context itself.
SimilarLinksOnce ==
    res.op = "decision_graph" =>
        /\ \A i, j \in SimilarLinks :
              res.out.links[i].target = res.out.links[j].target => i = j
        /\ \A i \in SimilarLinks :
              res.out.links[i].target # "context:" \o ContextIdOf(arg.context)

(***************************************************************************)
(* C23                                                                     *)
(***************************************************************************)
\* store_decision_graph has written a batch into a scope that was empty, and
\* load_contexts_from_db has read that scope
LoadedAfterStore ==
    /\ LastStored
    /\ last.pre.nodes = {}
    /\ obs.op = "load" /\ obs.user_id = last.user_id /\ obs.tenant = last.tenant

\* the records load_contexts_from_db has returned for a context_id
LoadedFor(cid) == {x \in obs.result : x.context_id = cid}

Omitted(tenant_id) == tenant_id \in {Null, ""}

\* the tenant an operation is to work on, from the arguments it was given
TenantFor(op, user_id, tenant_id) ==
    IF ~Omitted(tenant_id) THEN tenant_id
    ELSE IF op \in {"import", "fetch"} THEN "public" ELSE user_id

\* the call that has just returned changed nothing outside the scope its
\* arguments determine, and wrote its contexts into that scope
WritesDefaultScope ==
    LET c == last'
        t == TenantFor(c.op, c.user_id, c.tenant_id)
        mine(n) == InScope(n, c.user_id, t)
        kept == {n \in store.nodes : ~mine(n)}
        ids == {n.nid : n \in kept}
    IN /\ kept = {n \in store'.nodes : ~mine(n)}
       /\ {e \in store.edges : e.src \in ids \/ e.dst \in ids}
            = {e \in store'.edges : e.src \in ids \/ e.dst \in ids}
       /\ \A r \in Range(c.batch) :
             Truthy(r.context_id) => r.context_id \in ContextIds(store', c.user_id, t)

\* the read that has just been made shows the contexts of the scope its
\* arguments determine, and no others
ReadsDefaultScope ==
    obs.op # Null =>
        LET t == TenantFor(obs.op, obs.user_id, obs.tenant_id)
            there == {cid \in ContextIds(store, obs.user_id, t) :
                        obs.context_id = Null \/ cid = obs.context_id}
        IN IF obs.op = "load"
           THEN {x.context_id : x \in obs.result} = there
           ELSE {n.id : n \in {n \in obs.result.nodes : n.type = "context"}}
                    = {"context:" \o cid : cid \in there}

\* C24: with tenant_id omitted or empty, import_contexts and
\* fetch_decision_graph work on scope (user_id, "public"), and
\* store_decision_graph and load_contexts_from_db on scope (user_id, user_id);
\* each operation reads and writes only the scope so determined.
TenantDefaults == []ReadsDefaultScope /\ [][ncalls' # ncalls => WritesDefaultScope]_vars

\* a store without a tenant followed by a load without a tenant, the user's
\* public scope holding other contexts
TenantDefaultsWitness ==
    /\ last.op = "store" /\ Omitted(last.tenant_id)
    /\ obs.op = "load" /\ Omitted(obs.tenant_id)
    /\ obs.result # {}
    /\ ContextIds(store, "u1", "public") # {}
    /\ ContextIds(store, "u1", "public") # ContextIds(store, "u1", "u1")

(***************************************************************************)
(* C25                                                                     *)
(***************************************************************************)
\* import_contexts has written a batch and load_contexts_from_db has read
\* the scope it wrote
LoadedAfterImport ==
    /\ LastImported
    /\ obs.op = "load" /\ obs.user_id = last.user_id /\ obs.tenant = last.tenant

\* C25: after import_contexts(batch, u, t), load_contexts_from_db(u, t)
\* returns one record per written context, and the record's conditions,
\* observed_issues, outcomes and decision_boundaries hold what was imported
\* for that context.
ImportLoadProjection ==
    LoadedAfterImport =>
        \A r \in Range(ImportNormalized(last.batch)) :
            /\ Cardinality(LoadedFor(r.context_id)) = 1
            /\ \A x \in LoadedFor(r.context_id) :
                  /\ Range(r.conditions) \subseteq x.conditions
                  /\ Range(r.observed_issues) \subseteq x.observed_issues
                  /\ Range(r.outcomes) \subseteq x.outcomes
                  /\ \A b \in Range(r.decision_boundaries) :
                        \E y \in x.decision_boundaries :
                            y.boundary_type = b.boundary_type /\ y.description = b.description

(***************************************************************************)
(* C26                                                                     *)
(***************************************************************************)
\* the title of a record: en, else zh, else the context_id
TitleOf(r) ==
    CASE r.title.k = "dict" /\ Truthy(r.title.en) -> r.title.en
      [] r.title.k = "dict" /\ Truthy(r.title.zh) -> r.title.zh
      [] r.title.k = "str" /\ Truthy(r.title.s)   -> r.title.s
      [] OTHER                                    -> r.context_id

\* C26: after store_decision_graph has written a batch, every Context node
\* whose context_id is that of a batch record has the record's title as its
\* label, whatever the order of the batch and whatever SIMILAR_TO or
\* EVOLVES_TO links there are between the records.
ContextLabelsSurvive ==
    LastStored =>
        \A r \in Range(SelectSeq(last.batch, StoreKeeps)) :
            \A n \in Match(store, "Context",
                           [context_id |-> r.context_id]
                               @@ Scope(last.user_id, last.tenant)) :
                n.label = TitleOf(r)

(***************************************************************************)
(* C27                                                                     *)
(***************************************************************************)
\* the edges of type typ that go from a node with id source to a node with id
\* target, both in scope (u, t)
EdgesBetween(source, typ, target, u, t) ==
    {e \in store.edges :
        /\ e.typ = typ
        /\ NodeOf(store, e.src) \in Match(store, Null, [id |-> source] @@ Scope(u, t))
        /\ NodeOf(store, e.dst) \in Match(store, Null, [id |-> target] @@ Scope(u, t))}

\* C27: after store_decision_graph has returned, for every batch context with
\* a non-empty context_id and every link of build_decision_graph(context,
\* batch), the scope holds exactly one edge of the sanitized type from the
\* node with id = source to the node with id = target.
LinksPersistedOnce ==
    LastStored =>
        \A r \in Range(SelectSeq(last.batch, StoreKeeps)) :
            LET links == BuildDecisionGraph(r, last.batch, SimLimit).links
            IN \A i \in 1..Len(links) :
                  Cardinality(EdgesBetween(links[i].source, SafeRel(links[i].label),
                                           links[i].target, last.user_id, last.tenant)) = 1

(***************************************************************************)
(* C28                                                                     *)
(***************************************************************************)
\* import_contexts has returned from a batch without a record that is a dict
\* with a non-empty context_id
EmptySync ==
    /\ LastImported
    /\ \A r \in Range(last.batch) : ~(r.dict /\ Truthy(r.context_id))

\* C28: import_contexts called with an empty batch, or with a batch in which
\* no record has a non-empty context_id, returns 0 and leaves its scope
\* without nodes and without edges, whatever the scope held before.
EmptySyncWipes ==
    EmptySync =>
        /\ last.ret = 0
        /\ \A n \in store.nodes : ~InScope(n, last.user_id, last.tenant)
        /\ ScopeSub(store, last.user_id, last.tenant) = EmptyStore
        /\ LET call == ImportCall(store, last.batch, last.user_id, last.tenant_id)
           IN Len(call.todo) = 1 /\ call.todo[1].k = "clear"

\* a batch of records without a context_id imported over a scope that held a
\* graph, another scope holding one still
EmptySyncWipesWitness ==
    /\ EmptySync
    /\ last.batch = <<cNoId, cNotDict>>
    /\ last.pre.edges # {}
    /\ store.edges # {}

(***************************************************************************)
(* C29                                                                     *)
(***************************************************************************)
\* C29: after store_decision_graph has written a context with a decision
\* boundary of boundary_type T and description D into an empty scope,
\* load_contexts_from_db returns that context with a decision_boundaries entry
\* whose boundary_type is T and whose description is D.
BoundaryTypeRoundTrip ==
    LoadedAfterStore =>
        \A r \in Range(SelectSeq(last.batch, StoreKeeps)) :
            \A b \in Range(r.decision_boundaries) :
                \A x \in LoadedFor(r.context_id) :
                    \E d \in x.decision_boundaries :
                        /\ d.boundary_type = b.boundary_type
                        /\ d.description = b.description

(***************************************************************************)
(* C30                                                                     *)
(***************************************************************************)
\* build_similarity has been applied, without truncation, to a target that
\* is itself a member of the corpus
SimilarWithinCorpus ==
    /\ Similar
    /\ arg.limit >= Len(arg.contexts)
    /\ arg.context \in Range(arg.contexts)

\* the entries of a result that stand for a context_id
EntriesFor(out, cid) == {out[k] : k \in {k \in 1..Len(out) : out[k].context_id = cid}}

\* C30: for a target A and a member B of the corpus with another context_id,
\* the corpus containing A too and the limit not truncating, B has an entry in
\* build_similarity(A, corpus) iff A has one in build_similarity(B, corpus),
\* and the two entries carry the same score and the same label.
SimilaritySymmetric ==
    SimilarWithinCorpus =>
        \A B \in Range(arg.contexts) :
            B.context_id # arg.context.context_id =>
                LET forth == EntriesFor(res.out, B.context_id)
                    back == EntriesFor(BuildSimilarity(B, arg.contexts, arg.limit),
                                       arg.context.context_id)
                IN /\ (forth = {}) <=> (back = {})
                   /\ \A e \in forth, f \in back :
                         e.score = f.score /\ e.label = f.label

\* a corpus holding the target, a context with more conditions that shares
\* some with it (score 0.67 both ways) and one that shares none
SimilaritySymmetricWitness ==
    /\ SimilarWithinCorpus
    /\ arg.context = sA
    /\ Range(arg.contexts) = {sA, sB, sH}
    /\ EntriesFor(res.out, "B") = {[context_id |-> "B", score |-> 67, label |-> "Failure"]}
    /\ EntriesFor(BuildSimilarity(sB, arg.contexts, arg.limit), "A")
          = {[context_id |-> "A", score |-> 67, label |-> "Failure"]}
    /\ EntriesFor(res.out, "H") = {}

====
